---- MODULE Spec2Model ----
(***************************************************************************)
(* Real-time call state synchronisation of the calling server:             *)
(* the in-memory call store (activeCalls), the WebSocket registry          *)
(* (wsClients) with its capacity test and heartbeat sweep,                 *)
(* broadcastCallStatus, the entry points that write a call record          *)
(* (POST /make-call, POST /webhooks/call-status, GET /call-status/:sid,    *)
(* POST /hangup-call, POST /webhooks/recording-status), the two message    *)
(* webhooks, and the placement and call-status webhook of the v3 server    *)
(* (database.calls, broadcast).                                            *)
(*                                                                         *)
(* Handlers run on one event loop: a handler runs to completion except at  *)
(* an await on the telephony provider, so every async handler is split     *)
(* into the step before the await and the step after it.                   *)
(*                                                                         *)
(* Time is Date.now() in milliseconds.  A request field that is absent is  *)
(* "none" (strings) or a negative number (numeric strings).  Requests      *)
(* carry their required field (to, sid).  A call object keeps the fields   *)
(* these handlers read: status, duration, answeredTime, recordingUrl.      *)
(***************************************************************************)
EXTENDS Integers, Sequences, FiniteSets, TLC

\* ------------------------------------------------------------------ bounds
TickStep == 1000
MaxTicks == 2
MaxEvents == 3
MaxLifecycleEvents == 2
MaxFanoutEvents == 2
MaxRegistryEvents == 1
MaxRecordingEvents == 3
MaxInOrderEvents == 4
MaxV3Calls == 2
MaxCallStatusEvents == 2
MaxMessages == 2
MaxSweeps == 2
MaxHeartbeatEvents == 1
MaxDisconnectEvents == 2
MaxUncaughtEvents == 2
MaxCleanups == 25
MaxCleanupEvents == 2
MaxInboundCleanups == 3
MaxStoreEvents == 2
MaxSubscribeEvents == 3
MaxCronTicks == 3
MaxCronDelay == 1
NumStudents == 2
\* the clock of the student cache advances this many half lifetimes
MaxCacheSteps == 2
\* writes applied to the student list
MaxStudentWrites == 2
CrowdSlack == 1

Sids == {"CA1", "CA2"}
ProviderSids == {"CA1"}
ProviderStatuses == {"ringing", "in-progress", "completed",
                     "no-answer"}
Obs == {"w1", "w2"}
DurationInputs == {-1, 42}
UrlInputs == {"none", "rec"}
FanoutStatuses == {"completed"}
HeartbeatObs == {"w1"}
InboundSids == {"CA8"}
InboundStatuses == {"in-progress", "completed", "no-answer"}
Operators == {"op1", "op2"}
StoreStatuses == {"in-progress", "completed"}
CallStatusInputs == {"initiated", "ringing", "completed"}
RecordingStatuses == {"in-progress", "completed"}
MessageSids == {"SM1", "SM2"}
MessageStatuses == {"sent", "delivered"}

\* ------------------------------------------------- vocabulary of the code
MAX_WS_CONNECTIONS == 1000
WS_HEARTBEAT_INTERVAL == 30000
WS_TIMEOUT == 60000
\* 2 * 60 * 60 * 1000
TWO_HOURS == 7200000
\* 2 * 60 * 1000
TWO_MINUTES == 120000

\* the periods of the two cleanup intervals and the delay of the timer that
\* voice-incoming sets
\* 5 * 60 * 1000
CleanupInterval == 300000
\* 30 * 1000
InboundCleanupInterval == 30000
MissedTimeout == 45000
\* cron.schedule('* * * * *'): every minute
CronInterval == 60000
\* timeDiff < 60000
ScheduleWindow == 60000
\* setTimeout(resolve, 5000) between two calls of one execution
CallSpacing == 5000

terminalStatuses == {"completed", "busy", "no-answer", "canceled", "failed"}
pollableStatuses == {"in-progress", "ringing", "queued", "initiated"}

NoCall == [status |-> "absent", duration |-> 0, answeredTime |-> 0,
           recordingUrl |-> "none"]

\* the schedules file holds at most one schedule; repeat "none": no schedule
NoSchedule == [active |-> FALSE, repeat |-> "none", date |-> 0]

\* schedule.studentIds: the students 1 .. NumStudents, in this order
Students == 1 .. NumStudents
RepeatInputs == {"once", "daily"}

\* generateRoomName() gives every room a name of its own
VideoRooms == {"room1"}

\* cache.students.ttl
CacheTtl == 30000
\* the clock of the student cache advances by half the lifetime
CacheStep == CacheTtl \div 2
\* name and status in the bodies of the student requests
StudentNames == {"ali"}
StudentStatuses == {"active", "deleted"}
StudentBodies == [name : StudentNames, status : StudentStatuses]
NoStudent == [name |-> "none", status |-> "none"]
\* cache.students = { data: null, timestamp: 0 }
EmptyCache == [filled |-> FALSE, data |-> {}, timestamp |-> 0]

\* an inbound call object keeps status, startTime and answeredBy
NoInbound == [status |-> "absent", startTime |-> 0, answeredBy |-> "none"]

NoResp == [op |-> "none", sid |-> "none", code |-> 0, status |-> "none",
           duration |-> 0, known |-> FALSE, providerErr |-> FALSE,
           cachedBefore |-> "none", providerStatus |-> "none",
           reported |-> -1, pubBefore |-> 0, fromCache |-> FALSE,
           students |-> {}]

VARIABLES
    now,          \* Date.now()
    twilioClient, \* TRUE iff the Twilio client was initialised
    calls,        \* the call objects, by sid (NoCall: never created)
    activeCalls,  \* the keys of the activeCalls Map
    wsClients,    \* the keys of the wsClients Map
    readyState,   \* ws.readyState of every socket
    subscribedCallSid, \* clientData.subscribedCallSid of every socket
    greeted,      \* the sockets that were sent the CONNECTED message
    inbox,        \* per socket, the ws.send calls made by broadcastCallStatus
    published,    \* the broadcastCallStatus invocations, in order
    placing,      \* /make-call requests suspended on calls.create
    polls,        \* /call-status requests suspended on calls(sid).fetch
    hangups,      \* /hangup-call requests suspended on calls(sid).update
    lastResp,     \* the HTTP response sent last
    isAlive,      \* clientData.isAlive of every socket
    lastActivity, \* clientData.lastActivity of every socket
    nextSweep,    \* when the heartbeat interval fires next
    crowd,        \* the number of other clients in the wsClients Map
    proved,       \* the sockets that connected or ponged since a sweep
                  \* visited them last
    errored,      \* the sockets that emitted 'error' and not yet 'close'
    requested,    \* per socket, the callSid of its last SUBSCRIBE_CALL
    dbConnected,  \* TRUE iff the database connection was established
    recordingsMap, \* the url kept by recordingsMap, by call sid
    recordings,   \* /webhooks/recording-status requests suspended on the db
    inMemoryMessages, \* the inMemoryMessages array
    unreadCount,  \* unreadCount of the sender's in-memory conversation
    smsRequests,  \* /webhooks/sms-incoming requests suspended on the db
    newMessages,  \* the number of broadcastNewMessage invocations
    databaseCalls, \* database.calls of the v3 server
    initiating,   \* v3 /api/calls/initiate requests suspended on calls.create
    broadcasts,   \* the messages passed to broadcast() by the v3 server
    startTime,    \* startTime of the call objects, by sid
    nextCleanup,  \* when the cleanup interval of activeCalls fires next
    inbound,      \* the inbound call objects, by sid
    inboundCalls, \* the keys of the inboundCalls Map
    missedTimers, \* the pending 45-second timers of voice-incoming
    nextInboundCleanup, \* when the cleanup interval of inboundCalls fires next
    incomingPublished,  \* the broadcastIncomingCallStatus invocations
    inMemoryCallHistory, \* the inMemoryCallHistory array
    callHistoryDocs,    \* the documents of the CallHistory collection
    historyCreates,     \* CallHistory.create calls that have not settled
    answering,    \* /api/inbound-call/answer requests suspended on update
    rejecting,    \* /api/inbound-call/reject requests suspended on update
    schedule,     \* the schedule kept in the schedules file
    runs,         \* the executions of the schedule that have not finished
    placed,       \* per student, the calls.create calls of the scheduler
    callCount,    \* callCount of every student in the students file
    callRecords,  \* the records of the history file, oldest first
    nextCron,     \* when the scheduler's cron job fires next
    activeVideoRooms, \* the keys of the activeVideoRooms Map
    videoRoomDocs,    \* status of the VideoRoom document, by room name
    videoOps,         \* the database operations of the video endpoints
                      \* that have not settled
    endedRooms,       \* the rooms for which end-room has answered success
    cache,            \* cache.students: data, timestamp
    studentDocs,      \* the documents of the Student collection, by _id
    inMemoryStudents, \* the inMemoryStudents array
    studentOps,       \* student requests suspended on the database
    studentLog        \* the writes of students counted: ids handed out,
                      \* writes applied, the newest completed write, and the
                      \* number of writes the cached list had seen

registryVars == <<isAlive, lastActivity, nextSweep, crowd, proved, errored,
                  requested>>

storeVars == <<dbConnected, recordingsMap, recordings, inMemoryMessages,
               unreadCount, smsRequests, newMessages>>

v3Vars == <<databaseCalls, initiating, broadcasts>>

gcVars == <<startTime, nextCleanup>>

\* the requests of the operators that wait for the provider
inboundReqs == <<answering, rejecting>>

inboundVars == <<inbound, inboundCalls, missedTimers, nextInboundCleanup,
                 incomingPublished, inMemoryCallHistory, callHistoryDocs,
                 historyCreates, inboundReqs>>

timerVars == <<gcVars, inboundVars>>

schedVars == <<schedule, runs, placed, callCount, callRecords, nextCron>>

\* the state of the services beside the call server
videoVars == <<activeVideoRooms, videoRoomDocs, videoOps, endedRooms>>

\* the student list: its cache, the collection, the fallback list and the
\* requests that wait for the database
cacheVars == <<cache, studentDocs, inMemoryStudents, studentOps, studentLog>>

serviceVars == <<schedVars, videoVars, cacheVars>>

\* what the call endpoints and the call-status webhook never touch
extVars == <<registryVars, storeVars, v3Vars, timerVars, serviceVars>>

vars == <<now, twilioClient, calls, activeCalls, wsClients, readyState,
          subscribedCallSid, greeted, inbox, published, placing, polls,
          hangups, lastResp, extVars>>

callVars == <<calls, activeCalls, placing, polls, hangups, lastResp>>

\* the call server, but for the clock
serverVars == <<twilioClient, wsClients, readyState, subscribedCallSid,
                greeted, inbox, published, callVars, registryVars, storeVars,
                v3Vars, timerVars>>

\* what the scheduler never touches
notSched == <<serverVars, videoVars, cacheVars>>

\* what the video endpoints never touch: they broadcast and respond
notVideo == <<now, twilioClient, readyState, subscribedCallSid, greeted,
              inbox, published, calls, activeCalls, placing, polls, hangups,
              registryVars, storeVars, v3Vars, timerVars, schedVars,
              cacheVars>>

\* a response under construction; pubBefore is the number of broadcasts made
\* before the handler that sends it
Resp == [NoResp EXCEPT !.pubBefore = Len(published)]

\* ------------------------------------------------------- pure helpers
\* parseInt(x) || 0 on a numeric string or an absent field
ParseIntOr0(x) == IF x < 0 THEN 0 ELSE x

\* truthiness of a request field: a present string, even "0", is truthy
Present(x) == x >= 0

\* Math.floor((Date.now() - answeredTime) / 1000)
ElapsedSeconds(answeredTime) == (now - answeredTime) \div 1000

\* cachedCall?.recordingUrl || RecordingUrl || null
OrUrl(a, b) == IF a # "none" THEN a ELSE b

\* Date.now() when the server starts: a time far from 0, larger than every
\* threshold a handler compares an age with
ServerStart == 100000 * TickStep

\* the state after startup, but for the number of other clients
Started ==
    /\ now = ServerStart
    /\ twilioClient \in BOOLEAN
    /\ calls = [s \in Sids |-> NoCall]
    /\ activeCalls = {}
    /\ wsClients = {}
    /\ readyState = [o \in Obs |-> "CONNECTING"]
    /\ subscribedCallSid = [o \in Obs |-> "none"]
    /\ greeted = {}
    /\ inbox = [o \in Obs |-> <<>>]
    /\ published = <<>>
    /\ placing = 0
    /\ polls = {}
    /\ hangups = {}
    /\ lastResp = NoResp
    /\ isAlive = [o \in Obs |-> FALSE]
    /\ lastActivity = [o \in Obs |-> 0]
    /\ nextSweep = now + WS_HEARTBEAT_INTERVAL
    /\ proved = {}
    /\ errored = {}
    /\ requested = [o \in Obs |-> "none"]
    /\ dbConnected = FALSE
    /\ recordingsMap = [s \in Sids |-> "none"]
    /\ recordings = {}
    /\ inMemoryMessages = <<>>
    /\ unreadCount = 0
    /\ smsRequests = {}
    /\ newMessages = 0
    /\ databaseCalls = <<>>
    /\ initiating = 0
    /\ broadcasts = <<>>
    /\ startTime = [s \in Sids |-> 0]
    /\ nextCleanup = now + CleanupInterval
    /\ inbound = [s \in InboundSids |-> NoInbound]
    /\ inboundCalls = {}
    /\ missedTimers = {}
    /\ nextInboundCleanup = now + InboundCleanupInterval
    /\ incomingPublished = <<>>
    /\ inMemoryCallHistory = <<>>
    /\ callHistoryDocs = {}
    /\ historyCreates = <<>>
    /\ answering = {}
    /\ rejecting = {}
    /\ schedule = NoSchedule
    /\ runs = <<>>
    /\ placed = [st \in Students |-> 0]
    /\ callCount = [st \in Students |-> 0]
    /\ callRecords = <<>>
    /\ nextCron = now + CronInterval
    /\ activeVideoRooms = {}
    /\ videoRoomDocs = [r \in VideoRooms |-> "none"]
    /\ videoOps = {}
    /\ endedRooms = {}
    /\ cache = EmptyCache
    /\ studentDocs = [i \in Students |-> NoStudent]
    /\ inMemoryStudents = <<>>
    /\ studentOps = {}
    /\ studentLog = [created |-> 0, writes |-> 0, completed |-> 0,
                     cachedAsOf |-> 0]

Init == Started /\ crowd = 0

\* the registry has filled up to CrowdSlack places short of its capacity
InitRegistry == Started /\ crowd = MAX_WS_CONNECTIONS - CrowdSlack

\* the clock advances, for up to MaxTicks - 1 steps after startup and after
\* each firing of the heartbeat interval
Tick ==
    /\ now + TickStep
           <= nextSweep - WS_HEARTBEAT_INTERVAL + (MaxTicks - 1) * TickStep
    /\ now' = now + TickStep
    /\ UNCHANGED <<twilioClient, wsClients, readyState, subscribedCallSid,
                   greeted, inbox, published>>
    /\ UNCHANGED callVars
    /\ UNCHANGED extVars

\* ---------------------------------------------------- WebSocket registry
\* wsClients.size: the sockets followed one by one and the crowd of others
wsClientsSize == crowd + Cardinality(wsClients)

\* mutant: the capacity test lets one more client in
AtCapacityOffByOne == wsClientsSize > MAX_WS_CONNECTIONS

\* wsClients.size >= MAX_WS_CONNECTIONS
AtCapacity == wsClientsSize >= MAX_WS_CONNECTIONS

\* mutant: a refused socket is still sent the CONNECTED message
GreetedAfterRefusalToo(o) == greeted \cup {o}

\* the sockets sent CONNECTED once socket o was refused: the handler returns
\* before its ws.send
GreetedAfterRefusal(o) == greeted

\* wss.on('connection'): at capacity the socket is closed with 1013 and never
\* registered; otherwise it is registered, with no filter, and greeted
WsConnect(o) ==
    /\ readyState[o] = "CONNECTING"
    /\ IF AtCapacity
       THEN /\ readyState' = [readyState EXCEPT ![o] = "CLOSING"]
            /\ greeted' = GreetedAfterRefusal(o)
            /\ UNCHANGED <<wsClients, subscribedCallSid, isAlive,
                           lastActivity, proved>>
       ELSE /\ readyState' = [readyState EXCEPT ![o] = "OPEN"]
            /\ wsClients' = wsClients \cup {o}
            /\ subscribedCallSid' = [subscribedCallSid EXCEPT ![o] = "none"]
            /\ isAlive' = [isAlive EXCEPT ![o] = TRUE]
            /\ lastActivity' = [lastActivity EXCEPT ![o] = now]
            /\ greeted' = greeted \cup {o}
            /\ proved' = proved \cup {o}
    /\ UNCHANGED <<now, twilioClient, inbox, published, nextSweep, crowd,
                   errored, requested>>
    /\ UNCHANGED <<callVars, storeVars, v3Vars, timerVars, serviceVars>>

\* mutant: the first subscription stays in force
NewFilterFirstKept(old, callSid) == IF old = "none" THEN callSid ELSE old

\* data.subscribedCallSid = parsed.callSid: the filter is one call sid, and an
\* assignment replaces it
NewFilter(old, callSid) == callSid

\* ws.on('message'), PING: data.lastActivity = Date.now(), and a PONG message
\* is sent back; isAlive is left as it is
WsPing(o) ==
    /\ readyState[o] = "OPEN"
    /\ o \in wsClients
    /\ lastActivity' = [lastActivity EXCEPT ![o] = now]
    /\ UNCHANGED <<now, twilioClient, wsClients, readyState,
                   subscribedCallSid, greeted, inbox, published, isAlive,
                   nextSweep, crowd, proved, errored, requested>>
    /\ UNCHANGED <<callVars, storeVars, v3Vars, timerVars, serviceVars>>

\* ws.on('message'), SUBSCRIBE_CALL: data.lastActivity = Date.now() and
\* data.subscribedCallSid = parsed.callSid (callSid "none": the field is
\* missing, which clears the filter)
WsSubscribe(o, callSid) ==
    /\ readyState[o] = "OPEN"
    /\ o \in wsClients
    /\ subscribedCallSid' =
           [subscribedCallSid EXCEPT
               ![o] = NewFilter(subscribedCallSid[o], callSid)]
    /\ requested' = [requested EXCEPT ![o] = callSid]
    /\ lastActivity' = [lastActivity EXCEPT ![o] = now]
    /\ UNCHANGED <<now, twilioClient, wsClients, readyState, greeted, inbox,
                   published, isAlive, nextSweep, crowd, proved, errored>>
    /\ UNCHANGED <<callVars, storeVars, v3Vars, timerVars, serviceVars>>

\* mutant: a pong leaves the mark of the last sweep in place
AliveAfterPongUnmarked(o) == isAlive

\* data.isAlive = true
AliveAfterPong(o) == [isAlive EXCEPT ![o] = TRUE]

\* ws.on('pong'): data.isAlive = true, data.lastActivity = Date.now()
WsPong(o) ==
    /\ readyState[o] = "OPEN"
    /\ o \in wsClients
    /\ isAlive' = AliveAfterPong(o)
    /\ lastActivity' = [lastActivity EXCEPT ![o] = now]
    /\ proved' = proved \cup {o}
    /\ UNCHANGED <<now, twilioClient, wsClients, readyState,
                   subscribedCallSid, greeted, inbox, published, nextSweep,
                   crowd, errored, requested>>
    /\ UNCHANGED <<callVars, storeVars, v3Vars, timerVars, serviceVars>>

\* one of the other clients connects while there is room for it
CrowdConnect ==
    /\ ~AtCapacity
    /\ crowd' = crowd + 1
    /\ UNCHANGED <<now, twilioClient, wsClients, readyState,
                   subscribedCallSid, greeted, inbox, published, isAlive,
                   lastActivity, nextSweep, proved, errored, requested>>
    /\ UNCHANGED <<callVars, storeVars, v3Vars, timerVars, serviceVars>>

\* one of the other clients closes: wsClients.delete(ws)
CrowdClose ==
    /\ crowd > 0
    /\ crowd' = crowd - 1
    /\ UNCHANGED <<now, twilioClient, wsClients, readyState,
                   subscribedCallSid, greeted, inbox, published, isAlive,
                   lastActivity, nextSweep, proved, errored, requested>>
    /\ UNCHANGED <<callVars, storeVars, v3Vars, timerVars, serviceVars>>

\* the clock advances to the next firing of the heartbeat interval
TickToSweep ==
    /\ now < nextSweep
    /\ now' = nextSweep
    /\ UNCHANGED <<twilioClient, wsClients, readyState, subscribedCallSid,
                   greeted, inbox, published>>
    /\ UNCHANGED <<callVars, extVars>>

\* mutant: only the silence of WS_TIMEOUT counts
SweepDeadTimeoutOnly ==
    {o \in wsClients : now - lastActivity[o] > WS_TIMEOUT}

\* the sockets the sweep terminates: not alive, or silent for WS_TIMEOUT
SweepDead ==
    {o \in wsClients :
        ~isAlive[o] \/ now - lastActivity[o] > WS_TIMEOUT}

\* the setInterval callback: a dead client is terminated and deleted; any
\* other is marked not alive and pinged, and a ping that throws (the socket
\* is not open) terminates and deletes that client too.  The crowd answers
\* every ping.
HeartbeatSweep ==
    \E threw \in SUBSET {o \in wsClients \ SweepDead :
                             readyState[o] # "OPEN"} :
        /\ now >= nextSweep
        /\ nextSweep' = nextSweep + WS_HEARTBEAT_INTERVAL
        /\ wsClients' = wsClients \ (SweepDead \cup threw)
        /\ readyState' = [o \in Obs |->
                             IF o \in SweepDead \cup threw
                                /\ readyState[o] # "CLOSED"
                             THEN "CLOSING" ELSE readyState[o]]
        /\ isAlive' = [o \in Obs |->
                          IF o \in wsClients THEN FALSE ELSE isAlive[o]]
        /\ proved' = proved \ wsClients
        /\ UNCHANGED <<now, twilioClient, subscribedCallSid, greeted, inbox,
                       published, lastActivity, crowd, errored,
                       requested>>
        /\ UNCHANGED <<callVars, storeVars, v3Vars, timerVars, serviceVars>>

\* the peer starts closing: readyState leaves OPEN before 'close' is emitted
WsClosing(o) ==
    /\ readyState[o] = "OPEN"
    /\ readyState' = [readyState EXCEPT ![o] = "CLOSING"]
    /\ UNCHANGED <<now, twilioClient, wsClients, subscribedCallSid, greeted,
                   inbox, published>>
    /\ UNCHANGED callVars
    /\ UNCHANGED extVars

\* ws.on('close'): wsClients.delete(ws)
WsClose(o) ==
    /\ readyState[o] \in {"OPEN", "CLOSING"}
    /\ readyState' = [readyState EXCEPT ![o] = "CLOSED"]
    /\ wsClients' = wsClients \ {o}
    /\ errored' = errored \ {o}
    /\ UNCHANGED <<now, twilioClient, subscribedCallSid, greeted, inbox,
                   published, isAlive, lastActivity, nextSweep, crowd, proved,
                   requested>>
    /\ UNCHANGED <<callVars, storeVars, v3Vars, timerVars, serviceVars>>

\* mutant: the error handler leaves the client registered
RegistryAfterErrorKept(o) == wsClients

\* wsClients.delete(ws) in the error handler
RegistryAfterError(o) == wsClients \ {o}

\* ws.on('error'): wsClients.delete(ws); the socket is then being closed
WsError(o) ==
    /\ readyState[o] = "OPEN"
    /\ readyState' = [readyState EXCEPT ![o] = "CLOSING"]
    /\ wsClients' = RegistryAfterError(o)
    /\ errored' = errored \cup {o}
    /\ UNCHANGED <<now, twilioClient, subscribedCallSid, greeted, inbox,
                   published, isAlive, lastActivity, nextSweep, crowd, proved, requested>>
    /\ UNCHANGED <<callVars, storeVars, v3Vars, timerVars, serviceVars>>

\* ------------------------------------------------------------ broadcast
\* mutant: the subscription filter is not consulted
SendsToNoFilter(o, callSid) ==
    /\ o \in wsClients
    /\ readyState[o] = "OPEN"

\* broadcastCallStatus sends to client o: it is registered, its socket is
\* OPEN, and its filter is falsy or equals the call sid
SendsTo(o, callSid) ==
    /\ o \in wsClients
    /\ readyState[o] = "OPEN"
    /\ \/ subscribedCallSid[o] = "none"
       \/ subscribedCallSid[o] = callSid

\* mutant: the send is recorded ahead of the earlier ones
LogSendFirst(log, idx, ok) == <<[idx |-> idx, ok |-> ok]>> \o log

\* one ws.send(message) call on a socket; ok = FALSE when it threw
LogSend(log, idx, ok) == Append(log, [idx |-> idx, ok |-> ok])

\* broadcastCallStatus(callSid, status, duration, recordingUrl); origin is the
\* caller.  A send that throws removes that client from wsClients and the loop
\* goes on with the next client.
broadcastCallStatus(callSid, status, duration, recordingUrl, origin) ==
    \E threw \in SUBSET {o \in Obs : SendsTo(o, callSid)} :
        /\ published' = Append(published,
                               [callSid |-> callSid, status |-> status,
                                origin |-> origin])
        /\ inbox' = [o \in Obs |->
                       IF SendsTo(o, callSid)
                       THEN LogSend(inbox[o], Len(published) + 1, o \notin threw)
                       ELSE inbox[o]]
        /\ wsClients' = wsClients \ threw
        /\ UNCHANGED <<readyState, subscribedCallSid, greeted>>

NoBroadcast == UNCHANGED <<wsClients, readyState, subscribedCallSid, greeted,
                           inbox, published>>

\* ----------------------------------------------------------- /make-call
\* !twilioClient: 500 'Twilio not configured'
MakeCallNotConfigured ==
    /\ ~twilioClient
    /\ lastResp' = [Resp EXCEPT !.op = "make-call", !.code = 500]
    /\ UNCHANGED <<now, twilioClient, calls, activeCalls, placing, polls,
                   hangups>>
    /\ NoBroadcast
    /\ UNCHANGED extVars

\* up to the await on twilioClient.calls.create (no more requests are in
\* flight than the provider has sids to hand out)
MakeCallStart ==
    /\ twilioClient
    /\ placing < Cardinality(ProviderSids)
    /\ placing' = placing + 1
    /\ UNCHANGED <<now, twilioClient, calls, activeCalls, polls, hangups,
                   lastResp>>
    /\ NoBroadcast
    /\ UNCHANGED extVars

\* mutant: the record is stored with the provider's first status
NewCallQueued == [status |-> "queued", duration |-> 0, answeredTime |-> 0,
                  recordingUrl |-> "none"]

\* the object stored by activeCalls.set(call.sid, {...})
NewCall == [status |-> "initiated", duration |-> 0, answeredTime |-> 0,
            recordingUrl |-> "none"]

\* calls.create resolved with a new sid: store the record, broadcast, answer
MakeCallStored(sid) ==
    /\ placing > 0
    /\ calls[sid] = NoCall
    /\ placing' = placing - 1
    /\ calls' = [calls EXCEPT ![sid] = NewCall]
    /\ activeCalls' = activeCalls \cup {sid}
    /\ broadcastCallStatus(sid, "initiated", 0, "none", "make-call")
    /\ lastResp' = [Resp EXCEPT !.op = "make-call", !.sid = sid,
                                  !.code = 200, !.known = TRUE]
    /\ UNCHANGED <<now, twilioClient, polls, hangups>>

\* that step where nothing reads the startTime field of the stored object
MakeCallCreated(sid) ==
    /\ MakeCallStored(sid)
    /\ UNCHANGED extVars

\* that step with startTime: Date.now() kept, for the cleanup that reads it
MakeCallCreatedAt(sid) ==
    /\ MakeCallStored(sid)
    /\ startTime' = [startTime EXCEPT ![sid] = now]
    /\ UNCHANGED <<registryVars, storeVars, v3Vars, nextCleanup,
                   inboundVars, serviceVars>>

\* calls.create rejected: 500 with the error message
MakeCallFailed ==
    /\ placing > 0
    /\ placing' = placing - 1
    /\ lastResp' = [Resp EXCEPT !.op = "make-call", !.code = 500,
                                  !.providerErr = TRUE]
    /\ UNCHANGED <<now, twilioClient, calls, activeCalls, polls, hangups>>
    /\ NoBroadcast
    /\ UNCHANGED extVars

\* ------------------------------------------------- /webhooks/call-status
\* mutant: answeredTime is stamped on every in-progress report
StampAnsweredAlways(answeredTime, status) ==
    IF status = "in-progress" THEN now ELSE answeredTime

\* if (status === 'in-progress' && !cachedCall.answeredTime)
\*     cachedCall.answeredTime = Date.now()
StampAnswered(answeredTime, status) ==
    IF status = "in-progress" /\ answeredTime = 0 THEN now ELSE answeredTime

\* mutant: the duration is always the time elapsed since the answer
WebhookUpdateElapsedOnly(rec, CallStatus, CallDuration, RecordingUrl) ==
    LET answered == StampAnswered(rec.answeredTime, CallStatus)
    IN  [rec EXCEPT !.status = CallStatus,
                    !.answeredTime = answered,
                    !.duration = IF answered # 0
                                 THEN (now - answered) \div 1000
                                 ELSE rec.duration,
                    !.recordingUrl = OrUrl(RecordingUrl, rec.recordingUrl)]

\* the record after the webhook body has run on it
WebhookUpdate(rec, CallStatus, CallDuration, RecordingUrl) ==
    LET answered == StampAnswered(rec.answeredTime, CallStatus)
        duration == IF Present(CallDuration) THEN ParseIntOr0(CallDuration)
                    ELSE IF answered # 0 THEN (now - answered) \div 1000
                    ELSE rec.duration
    IN  [rec EXCEPT !.status = CallStatus,
                    !.answeredTime = answered,
                    !.duration = duration,
                    !.recordingUrl = OrUrl(RecordingUrl, rec.recordingUrl)]

\* the local variable duration of the webhook handler when it broadcasts
WebhookDuration(known, rec, CallStatus, CallDuration) ==
    LET answered == StampAnswered(rec.answeredTime, CallStatus)
    IN  IF known /\ ~Present(CallDuration) /\ answered # 0
        THEN (now - answered) \div 1000
        ELSE ParseIntOr0(CallDuration)

\* mutant: a report about a call that has no record is answered 404
WebhookReplyNotFound(known) == IF known THEN 200 ELSE 404

\* res.status(200).send('OK'), the last statement on every path
WebhookReply(known) == 200

\* mutant: the webhook drops the record of a call that has ended
KeysAfterWebhookEndedDropped(CallSid, CallStatus) ==
    IF CallStatus \in terminalStatuses THEN activeCalls \ {CallSid}
    ELSE activeCalls

\* the keys of activeCalls after the webhook, which calls get and neither
\* set nor delete
KeysAfterWebhook(CallSid, CallStatus) == activeCalls

\* POST /webhooks/call-status: overwrite the cached record if there is one,
\* broadcast in every case, answer 200 (reported is the CallDuration field
\* of the request)
WebhookCallStatus(CallSid, CallStatus, CallDuration, RecordingUrl) ==
    LET known == CallSid \in activeCalls
        rec == WebhookUpdate(calls[CallSid], CallStatus, CallDuration,
                             RecordingUrl)
    IN  /\ calls' = IF known THEN [calls EXCEPT ![CallSid] = rec] ELSE calls
        /\ broadcastCallStatus(CallSid, CallStatus,
               WebhookDuration(known, calls[CallSid], CallStatus, CallDuration),
               IF known THEN rec.recordingUrl ELSE RecordingUrl,
               "webhook")
        /\ lastResp' = [Resp EXCEPT !.op = "webhook", !.sid = CallSid,
                                      !.code = WebhookReply(known),
                                      !.known = known,
                                      !.status = CallStatus,
                                      !.reported = CallDuration]
        /\ activeCalls' = KeysAfterWebhook(CallSid, CallStatus)
        /\ UNCHANGED <<now, twilioClient, placing, polls, hangups>>
        /\ UNCHANGED extVars

\* broadcastCallStatus of server.js, where client.send is not inside a try: a
\* send that throws ends the forEach.  The clients visited before the thrower
\* (served) were sent the message, the thrower and the clients after it were
\* not, no client is deleted, and the exception reaches the caller.  The Set
\* is visited in the order the clients connected, which the state does not
\* keep: with two clients either may have connected first.
broadcastCallStatusUncaught(callSid, status, origin, thrower, served) ==
    /\ SendsTo(thrower, callSid)
    /\ served \subseteq {o \in Obs : SendsTo(o, callSid)} \ {thrower}
    /\ published' = Append(published,
                           [callSid |-> callSid, status |-> status,
                            origin |-> origin])
    /\ inbox' = [o \in Obs |->
                   IF o = thrower
                   THEN LogSend(inbox[o], Len(published) + 1, FALSE)
                   ELSE IF o \in served
                   THEN LogSend(inbox[o], Len(published) + 1, TRUE)
                   ELSE inbox[o]]
    /\ UNCHANGED <<wsClients, readyState, subscribedCallSid, greeted>>

\* POST /webhooks/call-status of server.js when a send throws: the record was
\* overwritten before the broadcast, the handler has no try, the exception
\* is answered by the framework with 500
WebhookCallStatusUncaught(CallSid, CallStatus, CallDuration, RecordingUrl, thrower, served) ==
    LET known == CallSid \in activeCalls
        rec == WebhookUpdate(calls[CallSid], CallStatus, CallDuration,
                             RecordingUrl)
    IN  /\ calls' = IF known THEN [calls EXCEPT ![CallSid] = rec] ELSE calls
        /\ broadcastCallStatusUncaught(CallSid, CallStatus, "webhook",
                                       thrower, served)
        /\ lastResp' = [Resp EXCEPT !.op = "webhook", !.sid = CallSid,
                                      !.code = 500,
                                      !.known = known,
                                      !.status = CallStatus,
                                      !.reported = CallDuration]
        /\ UNCHANGED <<now, twilioClient, activeCalls, placing, polls,
                       hangups>>
        /\ UNCHANGED extVars

\* ------------------------------------------------------ /call-status/:sid
\* the cached branch: refresh the duration of a call in progress
RefreshDuration(rec) ==
    IF rec.status = "in-progress" /\ rec.answeredTime # 0
    THEN [rec EXCEPT !.duration = ElapsedSeconds(rec.answeredTime)]
    ELSE rec

\* the request reaches the await on twilioClient.calls(sid).fetch(): either
\* the reconcile branch (a cached record in a pollable status) or the direct
\* fetch for a sid that has no cached record (one poll in flight per sid)
PollStart(sid) ==
    /\ twilioClient
    /\ \A p \in polls : p.sid # sid
    /\ \/ sid \in activeCalls /\ calls[sid].status \in pollableStatuses
       \/ sid \notin activeCalls
    /\ polls' = polls \cup {[sid |-> sid, cached |-> sid \in activeCalls]}
    /\ UNCHANGED <<now, twilioClient, calls, activeCalls, placing, hangups,
                   lastResp>>
    /\ NoBroadcast
    /\ UNCHANGED extVars

\* no fetch is made: answer from the cached record
PollCached(sid) ==
    /\ sid \in activeCalls
    /\ ~twilioClient \/ calls[sid].status \notin pollableStatuses
    /\ calls' = [calls EXCEPT ![sid] = RefreshDuration(calls[sid])]
    /\ lastResp' = [Resp EXCEPT !.op = "poll", !.sid = sid, !.code = 200,
                                  !.status = calls[sid].status,
                                  !.duration = calls'[sid].duration,
                                  !.known = TRUE,
                                  !.cachedBefore = calls[sid].status]
    /\ UNCHANGED <<now, twilioClient, activeCalls, placing, polls, hangups>>
    /\ NoBroadcast
    /\ UNCHANGED extVars

\* no cached record and no client: 404
PollNotFound(sid) ==
    /\ sid \notin activeCalls
    /\ ~twilioClient
    /\ lastResp' = [Resp EXCEPT !.op = "poll", !.sid = sid, !.code = 404]
    /\ UNCHANGED <<now, twilioClient, calls, activeCalls, placing, polls,
                   hangups>>
    /\ NoBroadcast
    /\ UNCHANGED extVars

\* mutant: only a provider status of 'completed' is treated as the end
DetectsEndCompletedOnly(twilioStatus, cachedStatus) ==
    /\ twilioStatus = "completed"
    /\ cachedStatus \notin terminalStatuses

\* terminalStatuses.includes(twilioStatus) &&
\* !terminalStatuses.includes(cachedCall.status)
DetectsEnd(twilioStatus, cachedStatus) ==
    /\ twilioStatus \in terminalStatuses
    /\ cachedStatus \notin terminalStatuses

\* parseInt(call.duration) || cachedCall.duration || 0
EndDuration(callDuration, rec) ==
    IF ParseIntOr0(callDuration) # 0 THEN ParseIntOr0(callDuration)
    ELSE rec.duration

\* the record after a fetch that did not detect the end of the call
Reconcile(rec, twilioStatus) ==
    RefreshDuration(
        IF twilioStatus # rec.status
        THEN [rec EXCEPT !.status = twilioStatus,
                         !.answeredTime = StampAnswered(rec.answeredTime,
                                                        twilioStatus)]
        ELSE rec)

\* the fetch of the reconcile branch resolved with (twilioStatus, callDuration)
PollFetched(p, twilioStatus, callDuration) ==
    LET rec == calls[p.sid]
        ended == DetectsEnd(twilioStatus, rec.status)
        after == IF ended
                 THEN [rec EXCEPT !.status = twilioStatus,
                                  !.duration = EndDuration(callDuration, rec)]
                 ELSE Reconcile(rec, twilioStatus)
    IN  /\ p \in polls
        /\ p.cached
        /\ polls' = polls \ {p}
        /\ calls' = [calls EXCEPT ![p.sid] = after]
        /\ IF ended
           THEN broadcastCallStatus(p.sid, twilioStatus, after.duration,
                                    rec.recordingUrl, "poll")
           ELSE NoBroadcast
        /\ lastResp' = [Resp EXCEPT !.op = "poll", !.sid = p.sid,
                                      !.code = 200,
                                      !.status = after.status,
                                      !.duration = after.duration,
                                      !.known = TRUE,
                                      !.cachedBefore = rec.status,
                                      !.providerStatus = twilioStatus]
        /\ UNCHANGED <<now, twilioClient, activeCalls, placing, hangups>>
        /\ UNCHANGED extVars

\* mutant: a failed fetch marks the call as failed
AfterFetchErrorFailed(rec) == [rec EXCEPT !.status = "failed"]

\* the record after the catch block, which only logs, and the cached branch
\* that follows it
AfterFetchError(rec) == RefreshDuration(rec)

\* the fetch of the reconcile branch rejected: fall through to the cached
\* answer
PollFetchFailed(p) ==
    /\ p \in polls
    /\ p.cached
    /\ polls' = polls \ {p}
    /\ calls' = [calls EXCEPT ![p.sid] = AfterFetchError(calls[p.sid])]
    /\ lastResp' = [Resp EXCEPT !.op = "poll", !.sid = p.sid, !.code = 200,
                                  !.status = calls'[p.sid].status,
                                  !.duration = calls'[p.sid].duration,
                                  !.known = TRUE, !.providerErr = TRUE,
                                  !.cachedBefore = calls[p.sid].status]
    /\ UNCHANGED <<now, twilioClient, activeCalls, placing, hangups>>
    /\ NoBroadcast
    /\ UNCHANGED extVars

\* the direct fetch for an uncached sid resolved or rejected: relay the
\* provider's status, or 404
PollDirect(p, twilioStatus, callDuration, ok) ==
    /\ p \in polls
    /\ ~p.cached
    /\ polls' = polls \ {p}
    /\ lastResp' = IF ok
                   THEN [Resp EXCEPT !.op = "poll", !.sid = p.sid,
                                       !.code = 200, !.status = twilioStatus,
                                       !.duration = ParseIntOr0(callDuration),
                                       !.providerStatus = twilioStatus]
                   ELSE [Resp EXCEPT !.op = "poll", !.sid = p.sid,
                                       !.code = 404, !.providerErr = TRUE]
    /\ UNCHANGED <<now, twilioClient, calls, activeCalls, placing, hangups>>
    /\ NoBroadcast
    /\ UNCHANGED extVars

\* ----------------------------------------------------------- /hangup-call
\* !twilioClient: 500 'Twilio not configured'
HangupNotConfigured(sid) ==
    /\ ~twilioClient
    /\ lastResp' = [Resp EXCEPT !.op = "hangup", !.sid = sid, !.code = 500,
                                  !.known = sid \in activeCalls]
    /\ UNCHANGED <<now, twilioClient, calls, activeCalls, placing, polls,
                   hangups>>
    /\ NoBroadcast
    /\ UNCHANGED extVars

\* up to the await on twilioClient.calls(sid).update({status: 'completed'}):
\* the duration is computed, and stored, only for an answered call (one
\* hangup in flight per sid)
HangupStart(sid) ==
    LET cached == sid \in activeCalls
        answered == cached /\ calls[sid].answeredTime # 0
        duration == IF answered THEN ElapsedSeconds(calls[sid].answeredTime)
                    ELSE 0
    IN  /\ twilioClient
        /\ \A h \in hangups : h.sid # sid
        /\ calls' = IF answered
                    THEN [calls EXCEPT ![sid].duration = duration]
                    ELSE calls
        /\ hangups' = hangups \cup {[sid |-> sid, cached |-> cached,
                                     duration |-> duration]}
        /\ UNCHANGED <<now, twilioClient, activeCalls, placing, polls,
                       lastResp>>
        /\ NoBroadcast
        /\ UNCHANGED extVars

\* the update resolved: mark the record completed, broadcast, answer success
HangupUpdated(h) ==
    /\ h \in hangups
    /\ hangups' = hangups \ {h}
    /\ calls' = IF h.cached THEN [calls EXCEPT ![h.sid].status = "completed"]
                ELSE calls
    /\ broadcastCallStatus(h.sid, "completed", h.duration,
                           IF h.cached THEN calls[h.sid].recordingUrl
                           ELSE "none", "hangup")
    /\ lastResp' = [Resp EXCEPT !.op = "hangup", !.sid = h.sid,
                                  !.code = 200, !.status = "completed",
                                  !.duration = h.duration,
                                  !.known = h.cached]
    /\ UNCHANGED <<now, twilioClient, activeCalls, placing, polls>>
    /\ UNCHANGED extVars

\* the update rejected: 500 with the error message, nothing else is done
HangupFailed(h) ==
    /\ h \in hangups
    /\ hangups' = hangups \ {h}
    /\ lastResp' = [Resp EXCEPT !.op = "hangup", !.sid = h.sid,
                                  !.code = 500, !.known = h.cached,
                                  !.providerErr = TRUE]
    /\ UNCHANGED <<now, twilioClient, calls, activeCalls, placing, polls>>
    /\ NoBroadcast
    /\ UNCHANGED extVars

\* -------------------------------------------------------------- database
\* connectDB resolved: dbConnected = true
ConnectDB ==
    /\ ~dbConnected
    /\ dbConnected' = TRUE
    /\ UNCHANGED <<now, twilioClient, recordingsMap, recordings,
                   inMemoryMessages, unreadCount, smsRequests, newMessages>>
    /\ UNCHANGED <<callVars, registryVars, v3Vars, timerVars, serviceVars>>
    /\ NoBroadcast

\* mongoose.connection.on('disconnected'): dbConnected = false
DisconnectDB ==
    /\ dbConnected
    /\ dbConnected' = FALSE
    /\ UNCHANGED <<now, twilioClient, recordingsMap, recordings,
                   inMemoryMessages, unreadCount, smsRequests, newMessages>>
    /\ UNCHANGED <<callVars, registryVars, v3Vars, timerVars, serviceVars>>
    /\ NoBroadcast

\* ------------------------------------------- /webhooks/recording-status
\* RecordingUrl + '.mp3'
PlayableUrl(RecordingUrl) == RecordingUrl \o ".mp3"

\* mutant: a record that has ended is left without the url
AttachRecordingUnlessEnded(rec, playableUrl) ==
    IF rec.status \in terminalStatuses THEN rec
    ELSE [rec EXCEPT !.recordingUrl = playableUrl]

\* cachedCall.recordingUrl = playableUrl
AttachRecording(rec, playableUrl) == [rec EXCEPT !.recordingUrl = playableUrl]

\* the notification is not a completed recording with a url: answer 200
RecordingStatusIgnored(CallSid, RecordingStatus, RecordingUrl) ==
    /\ ~(RecordingStatus = "completed" /\ RecordingUrl # "none")
    /\ lastResp' = [Resp EXCEPT !.op = "recording", !.sid = CallSid,
                                  !.code = 200,
                                  !.known = CallSid \in activeCalls]
    /\ UNCHANGED <<now, twilioClient, calls, activeCalls, placing, polls,
                   hangups>>
    /\ UNCHANGED extVars
    /\ NoBroadcast

\* the cached record, if any, and recordingsMap after the handler stored the
\* url of a completed recording
RecordingStored(CallSid, RecordingUrl) ==
    /\ calls' = IF CallSid \in activeCalls
                THEN [calls EXCEPT
                        ![CallSid] = AttachRecording(calls[CallSid],
                                                     PlayableUrl(RecordingUrl))]
                ELSE calls
    /\ recordingsMap' = [recordingsMap EXCEPT
                            ![CallSid] = PlayableUrl(RecordingUrl)]

\* a completed recording, no database: store the url, broadcast
\* 'recording-ready', answer 200
RecordingStatusCompleted(CallSid, RecordingUrl, RecordingDuration) ==
    /\ RecordingUrl # "none"
    /\ ~dbConnected
    /\ RecordingStored(CallSid, RecordingUrl)
    /\ broadcastCallStatus(CallSid, "recording-ready",
                           ParseIntOr0(RecordingDuration),
                           PlayableUrl(RecordingUrl), "recording")
    /\ lastResp' = [Resp EXCEPT !.op = "recording", !.sid = CallSid,
                                  !.code = 200, !.status = "recording-ready",
                                  !.known = CallSid \in activeCalls]
    /\ UNCHANGED <<now, twilioClient, activeCalls, placing, polls, hangups,
                   dbConnected, recordings, inMemoryMessages, unreadCount,
                   smsRequests, newMessages>>
    /\ UNCHANGED <<registryVars, v3Vars, timerVars, serviceVars>>

\* a completed recording, database connected: store the url, up to the await
\* on CallHistory.findOneAndUpdate (one such request in flight per sid)
RecordingStatusStart(CallSid, RecordingUrl, RecordingDuration) ==
    /\ RecordingUrl # "none"
    /\ dbConnected
    /\ \A r \in recordings : r.sid # CallSid
    /\ RecordingStored(CallSid, RecordingUrl)
    /\ recordings' = recordings \cup
                        {[sid |-> CallSid,
                          url |-> PlayableUrl(RecordingUrl),
                          duration |-> ParseIntOr0(RecordingDuration),
                          known |-> CallSid \in activeCalls]}
    /\ UNCHANGED <<now, twilioClient, activeCalls, placing, polls, hangups,
                   lastResp, dbConnected, inMemoryMessages, unreadCount,
                   smsRequests, newMessages>>
    /\ UNCHANGED <<registryVars, v3Vars, timerVars, serviceVars>>
    /\ NoBroadcast

\* the database update resolved or rejected (the rejection is only logged):
\* broadcast 'recording-ready', answer 200
RecordingStatusSettled(r) ==
    /\ r \in recordings
    /\ recordings' = recordings \ {r}
    /\ broadcastCallStatus(r.sid, "recording-ready", r.duration, r.url,
                           "recording")
    /\ lastResp' = [Resp EXCEPT !.op = "recording", !.sid = r.sid,
                                  !.code = 200, !.status = "recording-ready",
                                  !.known = r.known]
    /\ UNCHANGED <<now, twilioClient, calls, activeCalls, placing, polls,
                   hangups, dbConnected, recordingsMap, inMemoryMessages,
                   unreadCount, smsRequests, newMessages>>
    /\ UNCHANGED <<registryVars, v3Vars, timerVars, serviceVars>>

\* --------------------------------------------------- /webhooks/sms-*
\* the in-memory branch: push the message, count it as unread in the
\* sender's conversation (created with unreadCount 1 if there is none),
\* broadcastNewMessage, answer with an empty TwiML response
SmsStoredInMemory(MessageSid) ==
    /\ inMemoryMessages' = Append(inMemoryMessages,
                                  [messageSid |-> MessageSid,
                                   status |-> "received"])
    /\ unreadCount' = unreadCount + 1
    /\ newMessages' = newMessages + 1
    /\ lastResp' = [Resp EXCEPT !.op = "sms-incoming", !.code = 200]

\* POST /webhooks/sms-incoming with no database: nothing is awaited
SmsIncomingInMemory(MessageSid) ==
    /\ ~dbConnected
    /\ SmsStoredInMemory(MessageSid)
    /\ UNCHANGED <<now, twilioClient, calls, activeCalls, placing, polls,
                   hangups, dbConnected, recordingsMap, recordings,
                   smsRequests>>
    /\ UNCHANGED <<registryVars, v3Vars, timerVars, serviceVars>>
    /\ NoBroadcast

\* database connected: up to the await on Student.findOne (one request in
\* flight per message sid)
SmsIncomingStart(MessageSid) ==
    /\ dbConnected
    /\ \A q \in smsRequests : q.messageSid # MessageSid
    /\ smsRequests' = smsRequests \cup
                         {[stage |-> "lookup", messageSid |-> MessageSid]}
    /\ UNCHANGED <<now, twilioClient, dbConnected, recordingsMap, recordings,
                   inMemoryMessages, unreadCount, newMessages>>
    /\ UNCHANGED <<callVars, registryVars, v3Vars, timerVars, serviceVars>>
    /\ NoBroadcast

\* Student.findOne resolved: dbConnected is read again; database still
\* connected: up to the awaits on Message.create and
\* Conversation.findOneAndUpdate
SmsIncomingLookedUp(q) ==
    /\ q \in smsRequests
    /\ q.stage = "lookup"
    /\ dbConnected
    /\ smsRequests' = (smsRequests \ {q}) \cup {[q EXCEPT !.stage = "save"]}
    /\ UNCHANGED <<now, twilioClient, dbConnected, recordingsMap, recordings,
                   inMemoryMessages, unreadCount, newMessages>>
    /\ UNCHANGED <<callVars, registryVars, v3Vars, timerVars, serviceVars>>
    /\ NoBroadcast

\* Student.findOne resolved after the database disconnected: the in-memory
\* branch runs
SmsIncomingLookedUpOffline(q) ==
    /\ q \in smsRequests
    /\ q.stage = "lookup"
    /\ ~dbConnected
    /\ smsRequests' = smsRequests \ {q}
    /\ SmsStoredInMemory(q.messageSid)
    /\ UNCHANGED <<now, twilioClient, calls, activeCalls, placing, polls,
                   hangups, dbConnected, recordingsMap, recordings>>
    /\ UNCHANGED <<registryVars, v3Vars, timerVars, serviceVars>>
    /\ NoBroadcast

\* Message.create and the conversation update resolved: broadcastNewMessage,
\* answer with an empty TwiML response
SmsIncomingSaved(q) ==
    /\ q \in smsRequests
    /\ q.stage = "save"
    /\ smsRequests' = smsRequests \ {q}
    /\ newMessages' = newMessages + 1
    /\ lastResp' = [Resp EXCEPT !.op = "sms-incoming", !.code = 200]
    /\ UNCHANGED <<now, twilioClient, calls, activeCalls, placing, polls,
                   hangups, dbConnected, recordingsMap, recordings,
                   inMemoryMessages, unreadCount>>
    /\ UNCHANGED <<registryVars, v3Vars, timerVars, serviceVars>>
    /\ NoBroadcast

\* one of the awaited database calls rejected: the catch block answers
\* 500 'Error processing incoming SMS'
SmsIncomingFailed(q) ==
    /\ q \in smsRequests
    /\ smsRequests' = smsRequests \ {q}
    /\ lastResp' = [Resp EXCEPT !.op = "sms-incoming", !.code = 500,
                                  !.providerErr = TRUE]
    /\ UNCHANGED <<now, twilioClient, calls, activeCalls, placing, polls,
                   hangups, dbConnected, recordingsMap, recordings,
                   inMemoryMessages, unreadCount, newMessages>>
    /\ UNCHANGED <<registryVars, v3Vars, timerVars, serviceVars>>
    /\ NoBroadcast

\* inMemoryMessages.find(m => m.messageSid === MessageSid): the index of the
\* first match, 0 if there is none
FindMessage(MessageSid) ==
    IF \E i \in DOMAIN inMemoryMessages :
           inMemoryMessages[i].messageSid = MessageSid
    THEN CHOOSE i \in DOMAIN inMemoryMessages :
             /\ inMemoryMessages[i].messageSid = MessageSid
             /\ \A j \in 1..(i - 1) :
                    inMemoryMessages[j].messageSid # MessageSid
    ELSE 0

\* POST /webhooks/sms-status with no database: if (msg) msg.status =
\* MessageStatus; answer 200
SmsStatusInMemory(MessageSid, MessageStatus) ==
    /\ ~dbConnected
    /\ inMemoryMessages' =
          IF FindMessage(MessageSid) # 0
          THEN [inMemoryMessages EXCEPT
                  ![FindMessage(MessageSid)].status = MessageStatus]
          ELSE inMemoryMessages
    /\ lastResp' = [Resp EXCEPT !.op = "sms-status", !.code = 200]
    /\ UNCHANGED <<now, twilioClient, calls, activeCalls, placing, polls,
                   hangups, dbConnected, recordingsMap, recordings,
                   unreadCount, smsRequests, newMessages>>
    /\ UNCHANGED <<registryVars, v3Vars, timerVars, serviceVars>>
    /\ NoBroadcast

\* POST /webhooks/sms-status with the database: Message.findOneAndUpdate
\* resolved (ok) or rejected, which is only logged; answer 200.  Nothing of
\* the server's state is read or written on either side of the await.
SmsStatusDb(MessageSid, MessageStatus, ok) ==
    /\ dbConnected
    /\ lastResp' = [Resp EXCEPT !.op = "sms-status", !.code = 200,
                                  !.providerErr = ~ok]
    /\ UNCHANGED <<now, twilioClient, calls, activeCalls, placing, polls,
                   hangups>>
    /\ UNCHANGED extVars
    /\ NoBroadcast

\* ------------------------------------------ the v3 server (part_003)
\* callSid.startsWith('CA'): the provider's sids do, 'sim_...' does not
StartsWithCA(callSid) == callSid \in Sids

\* 'sim_' + Date.now()
SimulatedSid == "sim_" \o ToString(now)

\* the end of /api/calls/initiate: database.calls.push(callRecord), broadcast
\* CALL_STATE_CHANGED 'initiated', answer success.  callError is TRUE when
\* calls.create rejected.
V3Placed(callSid, callError) ==
    /\ databaseCalls' = Append(databaseCalls,
                               [id |-> callSid, status |-> "initiated",
                                duration |-> 0,
                                method |-> IF StartsWithCA(callSid)
                                           THEN "twilio" ELSE "simulated",
                                error |-> callError])
    /\ broadcasts' = Append(broadcasts,
                            [type |-> "CALL_STATE_CHANGED",
                             callId |-> callSid, status |-> "initiated"])
    /\ lastResp' = [Resp EXCEPT !.op = "initiate", !.sid = callSid,
                                  !.code = 200, !.known = TRUE,
                                  !.providerErr = callError]

\* no Twilio client: simulation mode
V3InitiateSimulated ==
    /\ ~twilioClient
    /\ V3Placed(SimulatedSid, FALSE)
    /\ UNCHANGED <<now, twilioClient, calls, activeCalls, placing, polls,
                   hangups, initiating>>
    /\ UNCHANGED <<registryVars, storeVars, timerVars, serviceVars>>
    /\ NoBroadcast

\* up to the await on twilio_client.calls.create
V3InitiateStart ==
    /\ twilioClient
    /\ initiating < Cardinality(ProviderSids)
    /\ initiating' = initiating + 1
    /\ UNCHANGED <<now, twilioClient, databaseCalls, broadcasts>>
    /\ UNCHANGED <<callVars, registryVars, storeVars, timerVars, serviceVars>>
    /\ NoBroadcast

\* calls.create resolved with a new sid
V3InitiateCreated(sid) ==
    /\ initiating > 0
    /\ \A i \in DOMAIN databaseCalls : databaseCalls[i].id # sid
    /\ initiating' = initiating - 1
    /\ V3Placed(sid, FALSE)
    /\ UNCHANGED <<now, twilioClient, calls, activeCalls, placing, polls,
                   hangups>>
    /\ UNCHANGED <<registryVars, storeVars, timerVars, serviceVars>>
    /\ NoBroadcast

\* calls.create rejected: the inner catch keeps the error message and goes
\* on with a simulated sid
V3InitiateRejected ==
    /\ initiating > 0
    /\ initiating' = initiating - 1
    /\ V3Placed(SimulatedSid, TRUE)
    /\ UNCHANGED <<now, twilioClient, calls, activeCalls, placing, polls,
                   hangups>>
    /\ UNCHANGED <<registryVars, storeVars, timerVars, serviceVars>>
    /\ NoBroadcast

\* database.calls.find(c => c.id === CallSid): the index of the first match,
\* 0 if there is none
FindCall(CallSid) ==
    IF \E i \in DOMAIN databaseCalls : databaseCalls[i].id = CallSid
    THEN CHOOSE i \in DOMAIN databaseCalls :
             /\ databaseCalls[i].id = CallSid
             /\ \A j \in 1..(i - 1) : databaseCalls[j].id # CallSid
    ELSE 0

\* the message type the v3 webhook broadcasts for a status ("none": the
\* switch has no case for it)
V3EventType(CallStatus) ==
    CASE CallStatus = "ringing" -> "CALL_STATE_CHANGED"
      [] CallStatus \in {"in-progress", "answered"} -> "CALL_CONNECTED"
      [] CallStatus \in {"completed", "canceled"} -> "CALL_ENDED"
      [] CallStatus \in {"busy", "no-answer", "failed"} -> "CALL_FAILED"
      [] OTHER -> "none"

\* the v3 POST /webhooks/call-status: a call with a record takes the status
\* (and, when completed, the duration) and the switch broadcasts; the answer
\* is 200 in every case
V3WebhookCallStatus(CallSid, CallStatus, CallDuration) ==
    LET i == FindCall(CallSid)
        sends == i # 0 /\ V3EventType(CallStatus) # "none"
    IN  /\ databaseCalls' =
              IF i = 0 THEN databaseCalls
              ELSE [databaseCalls EXCEPT
                      ![i].status = CallStatus,
                      ![i].duration = IF CallStatus = "completed"
                                      THEN ParseIntOr0(CallDuration)
                                      ELSE @]
        /\ broadcasts' =
              IF sends
              THEN Append(broadcasts,
                          [type |-> V3EventType(CallStatus),
                           callId |-> CallSid,
                           status |-> IF V3EventType(CallStatus)
                                         = "CALL_CONNECTED"
                                      THEN "active" ELSE CallStatus])
              ELSE broadcasts
        /\ lastResp' = [Resp EXCEPT !.op = "v3-webhook", !.sid = CallSid,
                                      !.code = 200, !.known = i # 0,
                                      !.status = CallStatus,
                                      !.reported = CallDuration]
        /\ UNCHANGED <<now, twilioClient, calls, activeCalls, placing, polls,
                       hangups, initiating>>
        /\ UNCHANGED <<registryVars, storeVars, timerVars, serviceVars>>
        /\ NoBroadcast

\* ------------------------------------------- cleanup of activeCalls
\* the clock advances to the next firing of the cleanup interval
TickToCleanup ==
    /\ now < nextCleanup
    /\ now' = nextCleanup
    /\ UNCHANGED <<twilioClient, wsClients, readyState, subscribedCallSid,
                   greeted, inbox, published>>
    /\ UNCHANGED <<callVars, extVars>>

\* mutant: only the records of ended calls are dropped
StaleCallsEndedOnly ==
    {sid \in activeCalls :
        /\ calls[sid].status \in terminalStatuses
        /\ now - startTime[sid] > TWO_HOURS}

\* the records the cleanup deletes: now - (callData.startTime || 0) > TWO_HOURS,
\* whatever the status
StaleCalls == {sid \in activeCalls : now - startTime[sid] > TWO_HOURS}

\* the setInterval callback that cleans activeCalls, every five minutes
CleanupActiveCalls ==
    /\ now >= nextCleanup
    /\ nextCleanup' = nextCleanup + CleanupInterval
    /\ activeCalls' = activeCalls \ StaleCalls
    /\ UNCHANGED <<now, twilioClient, calls, placing, polls, hangups,
                   lastResp, startTime>>
    /\ NoBroadcast
    /\ UNCHANGED <<registryVars, storeVars, v3Vars, inboundVars, serviceVars>>

\* ------------------------------------------------------- inbound calls
\* the larger timer deadline is not the next one to come
Earliest(deadlines) == CHOOSE d \in deadlines : \A e \in deadlines : d <= e

\* when the next timer of the inbound calls is due: the cleanup interval or
\* one of the 45-second timers
NextInboundDeadline ==
    Earliest({nextInboundCleanup} \cup {t.due : t \in missedTimers})

\* the clock advances to that deadline
TickToInboundTimer ==
    /\ now < NextInboundDeadline
    /\ now' = NextInboundDeadline
    /\ UNCHANGED <<twilioClient, wsClients, readyState, subscribedCallSid,
                   greeted, inbox, published>>
    /\ UNCHANGED <<callVars, extVars>>

\* the clients that broadcastIncomingCall and broadcastIncomingCallStatus
\* send to: every registered client whose socket is OPEN
IncomingSendsTo(o) == o \in wsClients /\ readyState[o] = "OPEN"

\* wsClients after broadcastIncomingCall(callData): a send that throws
\* deletes that client
broadcastIncomingCall ==
    \E threw \in SUBSET {o \in Obs : IncomingSendsTo(o)} :
        wsClients' = wsClients \ threw

\* broadcastIncomingCallStatus(callSid, status, additionalData)
broadcastIncomingCallStatus(callSid, status) ==
    \E threw \in SUBSET {o \in Obs : IncomingSendsTo(o)} :
        /\ incomingPublished' =
               Append(incomingPublished,
                      [callSid |-> callSid, status |-> status])
        /\ wsClients' = wsClients \ threw

\* saveInboundCallHistory(callData, status, duration) up to its await: with
\* the database it starts CallHistory.create, without it the entry is put
\* at the head of inMemoryCallHistory
saveInboundCallHistory(callSid, status) ==
    LET entry == [callSid |-> callSid, status |-> status]
    IN  IF dbConnected
        THEN /\ historyCreates' = Append(historyCreates, entry)
             /\ UNCHANGED inMemoryCallHistory
        ELSE /\ inMemoryCallHistory' = <<entry>> \o inMemoryCallHistory
             /\ UNCHANGED historyCreates

\* the sequence without its i-th element
Without(seq, i) == SubSeq(seq, 1, i - 1) \o SubSeq(seq, i + 1, Len(seq))

\* CallHistory.create resolves: the entry is in the collection
CallHistoryCreated(i) ==
    /\ callHistoryDocs' = callHistoryDocs \cup {historyCreates[i]}
    /\ historyCreates' = Without(historyCreates, i)
    /\ UNCHANGED <<now, twilioClient>>
    /\ NoBroadcast
    /\ UNCHANGED <<callVars, registryVars, storeVars, v3Vars, gcVars,
                   serviceVars, inboundReqs>>
    /\ UNCHANGED <<inbound, inboundCalls, missedTimers, nextInboundCleanup,
                   incomingPublished, inMemoryCallHistory>>

\* CallHistory.create rejects: the catch logs the error, nothing is saved
CallHistoryCreateFailed(i) ==
    /\ historyCreates' = Without(historyCreates, i)
    /\ UNCHANGED <<now, twilioClient>>
    /\ NoBroadcast
    /\ UNCHANGED <<callVars, registryVars, storeVars, v3Vars, gcVars,
                   serviceVars, inboundReqs>>
    /\ UNCHANGED <<inbound, inboundCalls, missedTimers, nextInboundCleanup,
                   incomingPublished, inMemoryCallHistory, callHistoryDocs>>

\* POST /webhooks/voice-incoming once the caller has been looked up: store
\* the call object as ringing, broadcast it, answer the hold TwiML, set the
\* 45-second timer (the provider calls this webhook once per call)
VoiceIncoming(CallSid) ==
    /\ inbound[CallSid] = NoInbound
    /\ inbound' = [inbound EXCEPT
                      ![CallSid] = [status |-> "ringing", startTime |-> now,
                                    answeredBy |-> "none"]]
    /\ inboundCalls' = inboundCalls \cup {CallSid}
    /\ broadcastIncomingCall
    /\ missedTimers' =
           missedTimers \cup {[sid |-> CallSid, due |-> now + MissedTimeout]}
    /\ lastResp' = [Resp EXCEPT !.op = "voice-incoming", !.sid = CallSid,
                                  !.code = 200]
    /\ UNCHANGED <<now, twilioClient, calls, activeCalls, placing, polls,
                   hangups, readyState, subscribedCallSid, greeted, inbox,
                   published>>
    /\ UNCHANGED <<registryVars, storeVars, v3Vars, gcVars, serviceVars, inboundReqs>>
    /\ UNCHANGED <<nextInboundCleanup, incomingPublished,
                   inMemoryCallHistory, callHistoryDocs, historyCreates>>

\* mutant: the timer marks the call whatever became of it
StillRingingUnchecked(sid) == TRUE

\* const call = inboundCalls.get(CallSid); call && call.status === 'ringing'
StillRinging(sid) == sid \in inboundCalls /\ inbound[sid].status = "ringing"

\* the setTimeout callback of voice-incoming: a call that is in inboundCalls
\* and still ringing is marked missed, broadcast and saved; otherwise
\* nothing is done
MissedTimerFires(t) ==
    /\ t \in missedTimers
    /\ now >= t.due
    /\ missedTimers' = missedTimers \ {t}
    /\ IF StillRinging(t.sid)
       THEN /\ inbound' = [inbound EXCEPT ![t.sid].status = "missed"]
            /\ broadcastIncomingCallStatus(t.sid, "missed")
            /\ saveInboundCallHistory(t.sid, "Missed")
       ELSE UNCHANGED <<inbound, wsClients, incomingPublished,
                        inMemoryCallHistory, historyCreates>>
    /\ UNCHANGED <<now, twilioClient, readyState, subscribedCallSid, greeted,
                   inbox, published>>
    /\ UNCHANGED <<callVars, registryVars, storeVars, v3Vars, gcVars,
                   serviceVars, inboundReqs>>
    /\ UNCHANGED <<inboundCalls, nextInboundCleanup, callHistoryDocs>>

\* finalStatus of voice-incoming-status
FinalStatus(call, CallStatus) ==
    IF call.answeredBy # "none" THEN "Completed"
    ELSE IF CallStatus = "busy" THEN "Busy"
    ELSE IF CallStatus = "no-answer" THEN "No Answer"
    ELSE IF CallStatus = "canceled" THEN "Canceled"
    ELSE "Missed"

\* POST /webhooks/voice-incoming-status: the end of a call that is in
\* inboundCalls is saved, broadcast and the call deleted; every report is
\* answered 200
VoiceIncomingStatus(CallSid, CallStatus) ==
    /\ IF CallSid \in inboundCalls /\ CallStatus \in terminalStatuses
       THEN /\ inbound' = [inbound EXCEPT ![CallSid].status = CallStatus]
            /\ saveInboundCallHistory(CallSid,
                                      FinalStatus(inbound[CallSid], CallStatus))
            /\ broadcastIncomingCallStatus(CallSid, CallStatus)
            /\ inboundCalls' = inboundCalls \ {CallSid}
       ELSE UNCHANGED <<inbound, inboundCalls, wsClients, incomingPublished,
                        inMemoryCallHistory, historyCreates>>
    /\ lastResp' = [Resp EXCEPT !.op = "voice-incoming-status",
                                  !.sid = CallSid, !.code = 200,
                                  !.status = CallStatus]
    /\ UNCHANGED <<now, twilioClient, calls, activeCalls, placing, polls,
                   hangups, readyState, subscribedCallSid, greeted, inbox,
                   published>>
    /\ UNCHANGED <<registryVars, storeVars, v3Vars, gcVars, serviceVars, inboundReqs>>
    /\ UNCHANGED <<missedTimers, nextInboundCleanup, callHistoryDocs>>

\* POST /api/inbound-call/answer up to its await on calls(callSid).update:
\* 404 for a call that is not in inboundCalls, 400 for one that is not
\* ringing, 500 when there is no Twilio client to call (each operator has
\* one request per call in flight)
InboundAnswerStart(callSid, answeredBy) ==
    LET req == [sid |-> callSid, by |-> answeredBy]
        refused == IF callSid \notin inboundCalls THEN 404
                   ELSE IF inbound[callSid].status # "ringing" THEN 400
                   ELSE IF ~twilioClient THEN 500
                   ELSE 0
    IN  /\ req \notin answering
        /\ IF refused # 0
           THEN /\ lastResp' = [Resp EXCEPT !.op = "inbound-answer",
                                            !.sid = callSid,
                                            !.code = refused]
                /\ UNCHANGED answering
           ELSE /\ answering' = answering \cup {req}
                /\ UNCHANGED lastResp
        /\ UNCHANGED <<now, twilioClient, calls, activeCalls, placing,
                       polls, hangups>>
        /\ NoBroadcast
        /\ UNCHANGED <<registryVars, storeVars, v3Vars, gcVars, serviceVars>>
        /\ UNCHANGED <<inbound, inboundCalls, missedTimers,
                       nextInboundCleanup, incomingPublished,
                       inMemoryCallHistory, callHistoryDocs, historyCreates,
                       rejecting>>

\* incomingCall.status = 'answered'; incomingCall.answeredBy = answeredBy
Answered(call, answeredBy) ==
    [call EXCEPT !.status = "answered", !.answeredBy = answeredBy]

\* the update resolved: the call object the request holds is marked
\* answered, the answer is broadcast, the request succeeds
InboundAnswerUpdated(req) ==
    /\ req \in answering
    /\ answering' = answering \ {req}
    /\ inbound' = [inbound EXCEPT ![req.sid] = Answered(@, req.by)]
    /\ broadcastIncomingCallStatus(req.sid, "answered")
    /\ lastResp' = [Resp EXCEPT !.op = "inbound-answer", !.sid = req.sid,
                                  !.code = 200, !.status = "answered"]
    /\ UNCHANGED <<now, twilioClient, calls, activeCalls, placing, polls,
                   hangups, readyState, subscribedCallSid, greeted, inbox,
                   published>>
    /\ UNCHANGED <<registryVars, storeVars, v3Vars, gcVars, serviceVars>>
    /\ UNCHANGED <<inboundCalls, missedTimers, nextInboundCleanup,
                   inMemoryCallHistory, callHistoryDocs, historyCreates,
                   rejecting>>

\* the update rejected: 500 with the error message
InboundAnswerFailed(req) ==
    /\ req \in answering
    /\ answering' = answering \ {req}
    /\ lastResp' = [Resp EXCEPT !.op = "inbound-answer", !.sid = req.sid,
                                  !.code = 500, !.providerErr = TRUE]
    /\ UNCHANGED <<now, twilioClient, calls, activeCalls, placing, polls,
                   hangups>>
    /\ NoBroadcast
    /\ UNCHANGED <<registryVars, storeVars, v3Vars, gcVars, serviceVars>>
    /\ UNCHANGED <<inbound, inboundCalls, missedTimers, nextInboundCleanup,
                   incomingPublished, inMemoryCallHistory, callHistoryDocs,
                   historyCreates, rejecting>>

\* POST /api/inbound-call/reject up to its await: 404 for a call that is
\* not in inboundCalls, whatever the status of one that is
InboundRejectStart(callSid, by) ==
    LET req == [sid |-> callSid, by |-> by]
        refused == IF callSid \notin inboundCalls THEN 404
                   ELSE IF ~twilioClient THEN 500
                   ELSE 0
    IN  /\ req \notin rejecting
        /\ IF refused # 0
           THEN /\ lastResp' = [Resp EXCEPT !.op = "inbound-reject",
                                            !.sid = callSid,
                                            !.code = refused]
                /\ UNCHANGED rejecting
           ELSE /\ rejecting' = rejecting \cup {req}
                /\ UNCHANGED lastResp
        /\ UNCHANGED <<now, twilioClient, calls, activeCalls, placing,
                       polls, hangups>>
        /\ NoBroadcast
        /\ UNCHANGED <<registryVars, storeVars, v3Vars, gcVars, serviceVars>>
        /\ UNCHANGED <<inbound, inboundCalls, missedTimers,
                       nextInboundCleanup, incomingPublished,
                       inMemoryCallHistory, callHistoryDocs, historyCreates,
                       answering>>

\* the update resolved: the call object is marked rejected, saved to the
\* history as 'Rejected', broadcast and deleted from inboundCalls
InboundRejectUpdated(req) ==
    /\ req \in rejecting
    /\ rejecting' = rejecting \ {req}
    /\ inbound' = [inbound EXCEPT ![req.sid].status = "rejected"]
    /\ saveInboundCallHistory(req.sid, "Rejected")
    /\ broadcastIncomingCallStatus(req.sid, "rejected")
    /\ inboundCalls' = inboundCalls \ {req.sid}
    /\ lastResp' = [Resp EXCEPT !.op = "inbound-reject", !.sid = req.sid,
                                  !.code = 200, !.status = "rejected"]
    /\ UNCHANGED <<now, twilioClient, calls, activeCalls, placing, polls,
                   hangups, readyState, subscribedCallSid, greeted, inbox,
                   published>>
    /\ UNCHANGED <<registryVars, storeVars, v3Vars, gcVars, serviceVars>>
    /\ UNCHANGED <<missedTimers, nextInboundCleanup, callHistoryDocs,
                   answering>>

\* the update rejected: 500 with the error message
InboundRejectFailed(req) ==
    /\ req \in rejecting
    /\ rejecting' = rejecting \ {req}
    /\ lastResp' = [Resp EXCEPT !.op = "inbound-reject", !.sid = req.sid,
                                  !.code = 500, !.providerErr = TRUE]
    /\ UNCHANGED <<now, twilioClient, calls, activeCalls, placing, polls,
                   hangups>>
    /\ NoBroadcast
    /\ UNCHANGED <<registryVars, storeVars, v3Vars, gcVars, serviceVars>>
    /\ UNCHANGED <<inbound, inboundCalls, missedTimers, nextInboundCleanup,
                   incomingPublished, inMemoryCallHistory, callHistoryDocs,
                   historyCreates, answering>>

\* callData.timestamp || 0: the object that voice-incoming stores has
\* startTime and no timestamp field
TimestampOr0(callData) == 0

\* the entries the cleanup of inboundCalls deletes
StaleInboundCalls ==
    {sid \in inboundCalls : now - TimestampOr0(inbound[sid]) > TWO_MINUTES}

\* the setInterval callback that cleans inboundCalls, every 30 seconds
CleanupInboundCalls ==
    /\ now >= nextInboundCleanup
    /\ nextInboundCleanup' = nextInboundCleanup + InboundCleanupInterval
    /\ inboundCalls' = inboundCalls \ StaleInboundCalls
    /\ UNCHANGED <<now, twilioClient>>
    /\ NoBroadcast
    /\ UNCHANGED <<callVars, registryVars, storeVars, v3Vars, gcVars,
                   serviceVars, inboundReqs>>
    /\ UNCHANGED <<inbound, missedTimers, incomingPublished,
                   inMemoryCallHistory, callHistoryDocs, historyCreates>>

\* ------------------------------------------- call scheduler (part_000)
\* Math.abs
Abs(x) == IF x < 0 THEN -x ELSE x

\* 24 * 60 * 60 * 1000
Day == 86400000

\* db.addSchedule: the new schedule is active; it is due two minutes after
\* the server started
AddSchedule(repeat) ==
    /\ schedule = NoSchedule
    /\ schedule' = [active |-> TRUE, repeat |-> repeat,
                    date |-> ServerStart + 2 * CronInterval]
    /\ UNCHANGED <<now, runs, placed, callCount, callRecords, nextCron>>
    /\ UNCHANGED notSched

\* Math.abs(now - scheduleDateTime) < 60000
Due(sch, t) == Abs(t - sch.date) < ScheduleWindow

\* the cron job fires, e milliseconds late: checkScheduledCalls up to the
\* first await, which stands behind the calls.create of the first student;
\* a timer that is due earlier has fired before
CronFires(e) ==
    LET t == nextCron + e
    IN  /\ now <= t
        /\ \A i \in DOMAIN runs :
               runs[i].phase = "waiting" => runs[i].wake >= nextCron
        /\ now' = t
        /\ nextCron' = nextCron + CronInterval
        /\ IF schedule.active /\ Due(schedule, t)
           THEN /\ runs' = Append(runs, [idx |-> 1, phase |-> "creating",
                                         wake |-> 0, date |-> schedule.date])
                /\ placed' = [placed EXCEPT ![1] = @ + 1]
           ELSE UNCHANGED <<runs, placed>>
        /\ UNCHANGED <<schedule, callCount, callRecords>>
        /\ UNCHANGED notSched

\* executeScheduledCall after calls.create settled: the call is recorded
\* and the five seconds of waiting begin
ExecCallSettled(i, ok) ==
    /\ i \in DOMAIN runs
    /\ runs[i].phase = "creating"
    /\ callCount' = IF ok THEN [callCount EXCEPT ![runs[i].idx] = @ + 1]
                    ELSE callCount
    /\ callRecords' =
           Append(callRecords,
                  [studentId |-> runs[i].idx,
                   status |-> IF ok THEN "completed" ELSE "failed"])
    /\ runs' = [runs EXCEPT ![i] = [@ EXCEPT !.phase = "waiting",
                                              !.wake = now + CallSpacing]]
    /\ UNCHANGED <<now, schedule, placed, nextCron>>
    /\ UNCHANGED notSched

\* the schedule after an execution of it returned: a repeating schedule
\* moves on from the date the execution started with, a one-time schedule
\* is deactivated
ScheduleAfterRun(run) ==
    IF schedule.repeat # "once"
    THEN [schedule EXCEPT !.date = run.date + Day]
    ELSE [schedule EXCEPT !.active = FALSE]

\* the five seconds are over: the next student is called, or the execution
\* returns to checkScheduledCalls, which updates the schedule
ExecWaitDone(i) ==
    /\ i \in DOMAIN runs
    /\ runs[i].phase = "waiting"
    /\ runs[i].wake <= nextCron + MaxCronDelay
    /\ now' = IF now < runs[i].wake THEN runs[i].wake ELSE now
    /\ IF runs[i].idx < NumStudents
       THEN /\ runs' = [runs EXCEPT ![i] = [@ EXCEPT !.idx = @ + 1,
                                                     !.phase = "creating"]]
            /\ placed' = [placed EXCEPT ![runs[i].idx + 1] = @ + 1]
            /\ UNCHANGED schedule
       ELSE /\ runs' = Without(runs, i)
            /\ schedule' = ScheduleAfterRun(runs[i])
            /\ UNCHANGED placed
    /\ UNCHANGED <<callCount, callRecords, nextCron>>
    /\ UNCHANGED notSched

\* ------------------------------------------------------- video rooms
\* broadcastVideoEvent(roomName, eventType, data): sent to every registered
\* client whose socket is OPEN, a send that throws deletes that client
broadcastVideoEvent ==
    \E threw \in SUBSET {o \in Obs : IncomingSendsTo(o)} :
        wsClients' = wsClients \ threw

\* a response of a video endpoint
VideoResp(op, roomName, code) ==
    [Resp EXCEPT !.op = op, !.sid = roomName, !.code = code]

\* POST /api/video/create-room, with the API keys configured and the
\* student's name and phone given: the room is put into activeVideoRooms,
\* the request answered, and with the database connected VideoRoom.create
\* is started in the background (the SMS invitation changes no state)
VideoCreateRoom(roomName) ==
    /\ roomName \notin activeVideoRooms \cup endedRooms
    /\ videoRoomDocs[roomName] = "none"
    /\ \A op \in videoOps : op.room # roomName
    /\ activeVideoRooms' = activeVideoRooms \cup {roomName}
    /\ lastResp' = VideoResp("video-create", roomName, 200)
    /\ videoOps' = IF dbConnected
                   THEN videoOps \cup {[kind |-> "create", room |-> roomName,
                                        late |-> FALSE]}
                   ELSE videoOps
    /\ UNCHANGED <<wsClients, videoRoomDocs, endedRooms>>
    /\ UNCHANGED notVideo

\* VideoRoom.create settled: when it resolved the document exists, with
\* status 'waiting'; when it rejected the catch logs the error
VideoRoomSaved(op, ok) ==
    /\ op \in videoOps
    /\ op.kind = "create"
    /\ videoOps' = videoOps \ {op}
    /\ videoRoomDocs' = IF ok
                        THEN [videoRoomDocs EXCEPT ![op.room] = "waiting"]
                        ELSE videoRoomDocs
    /\ UNCHANGED <<wsClients, lastResp, activeVideoRooms, endedRooms>>
    /\ UNCHANGED notVideo

\* VideoRoom.findOneAndUpdate({roomName}, {status}): a document that
\* exists is updated, none is created
DocAfterUpdate(doc, status) == IF doc = "none" THEN "none" ELSE status

\* POST /api/video/end-room up to its await: the room is deleted from
\* activeVideoRooms; without the database the event is broadcast and the
\* request answered at once (one request per room in flight)
VideoEndRoomStart(roomName) ==
    /\ \A op \in videoOps : ~(op.kind = "end" /\ op.room = roomName)
    /\ activeVideoRooms' = activeVideoRooms \ {roomName}
    /\ IF dbConnected
       THEN /\ videoOps' = videoOps \cup {[kind |-> "end", room |-> roomName,
                                            late |-> FALSE]}
            /\ UNCHANGED <<wsClients, lastResp, endedRooms>>
       ELSE /\ broadcastVideoEvent
            /\ lastResp' = VideoResp("video-end", roomName, 200)
            /\ endedRooms' = endedRooms \cup {roomName}
            /\ UNCHANGED videoOps
    /\ UNCHANGED videoRoomDocs
    /\ UNCHANGED notVideo

\* the update resolved: the document, if there is one, is completed, the
\* event is broadcast, the request answered success
VideoEndRoomUpdated(op) ==
    /\ op \in videoOps
    /\ op.kind = "end"
    /\ videoOps' = videoOps \ {op}
    /\ videoRoomDocs' =
           [videoRoomDocs EXCEPT ![op.room] = DocAfterUpdate(@, "completed")]
    /\ broadcastVideoEvent
    /\ lastResp' = VideoResp("video-end", op.room, 200)
    /\ endedRooms' = endedRooms \cup {op.room}
    /\ UNCHANGED activeVideoRooms
    /\ UNCHANGED notVideo

\* the update rejected: 500
VideoEndRoomFailed(op) ==
    /\ op \in videoOps
    /\ op.kind = "end"
    /\ videoOps' = videoOps \ {op}
    /\ lastResp' = VideoResp("video-end", op.room, 500)
    /\ UNCHANGED <<wsClients, activeVideoRooms, videoRoomDocs, endedRooms>>
    /\ UNCHANGED notVideo

\* the student is given a token: the event is broadcast, the request
\* answered success, and with the database connected the document's status
\* is updated in the background
VideoJoined(roomName, ops) ==
    /\ broadcastVideoEvent
    /\ lastResp' = VideoResp("video-join", roomName, 200)
    /\ videoOps' = IF dbConnected
                   THEN ops \cup {[kind |-> "activate", room |-> roomName,
                                   late |-> FALSE]}
                   ELSE ops

\* GET /api/video/join/:roomName up to its await, with the API keys
\* configured and a name given: a room in activeVideoRooms is joined at
\* once, else the document is looked up, else (no database) 404; late
\* tells that the request arrived after end-room answered for the room
VideoJoinStart(roomName) ==
    /\ \A op \in videoOps : ~(op.kind = "find" /\ op.room = roomName)
    /\ IF roomName \in activeVideoRooms
       THEN VideoJoined(roomName, videoOps)
       ELSE IF dbConnected
       THEN /\ videoOps' =
                   videoOps \cup {[kind |-> "find", room |-> roomName,
                                   late |-> roomName \in endedRooms]}
            /\ UNCHANGED <<wsClients, lastResp>>
       ELSE /\ lastResp' = VideoResp("video-join", roomName, 404)
            /\ UNCHANGED <<wsClients, videoOps>>
    /\ UNCHANGED <<activeVideoRooms, videoRoomDocs, endedRooms>>
    /\ UNCHANGED notVideo

\* VideoRoom.findOne resolved: 404 without a document, 400 for a completed
\* one, else the room is restored into activeVideoRooms and joined
VideoJoinFound(op) ==
    LET doc == videoRoomDocs[op.room]
    IN  /\ op \in videoOps
        /\ op.kind = "find"
        /\ IF doc \in {"none", "completed"}
           THEN /\ lastResp' = VideoResp("video-join", op.room,
                                         IF doc = "none" THEN 404 ELSE 400)
                /\ videoOps' = videoOps \ {op}
                /\ UNCHANGED <<wsClients, activeVideoRooms>>
           ELSE /\ activeVideoRooms' = activeVideoRooms \cup {op.room}
                /\ VideoJoined(op.room, videoOps \ {op})
        /\ UNCHANGED <<videoRoomDocs, endedRooms>>
        /\ UNCHANGED notVideo

\* VideoRoom.findOne rejected: 500
VideoJoinFindFailed(op) ==
    /\ op \in videoOps
    /\ op.kind = "find"
    /\ videoOps' = videoOps \ {op}
    /\ lastResp' = VideoResp("video-join", op.room, 500)
    /\ UNCHANGED <<wsClients, activeVideoRooms, videoRoomDocs, endedRooms>>
    /\ UNCHANGED notVideo

\* the background update of join settled: a document that exists is
\* 'active' (the teacher has joined every room that was created); when it
\* rejects, the catch logs the error
VideoJoinActivated(op, ok) ==
    /\ op \in videoOps
    /\ op.kind = "activate"
    /\ videoOps' = videoOps \ {op}
    /\ videoRoomDocs' =
           IF ok
           THEN [videoRoomDocs EXCEPT ![op.room] = DocAfterUpdate(@, "active")]
           ELSE videoRoomDocs
    /\ UNCHANGED <<wsClients, lastResp, activeVideoRooms, endedRooms>>
    /\ UNCHANGED notVideo

\* ------------------------------------------------------ student list
\* what the student endpoints never touch: they respond
notStudents == <<now, twilioClient, wsClients, readyState, subscribedCallSid, greeted, inbox, published, calls, activeCalls, placing, polls, hangups, registryVars, storeVars, v3Vars, timerVars, schedVars, videoVars>>

\* Student.find({status: {$ne: 'deleted'}}) on the collection docs
StudentList(docs) ==
    {[id |-> i, name |-> docs[i].name, status |-> docs[i].status] :
        i \in {j \in Students : /\ docs[j] # NoStudent
                                /\ docs[j].status # "deleted"}}

\* getCached('students') returns the data: there is data (an empty array
\* counts) and it is younger than ttl
CacheHit == cache.filled /\ now - cache.timestamp < CacheTtl

\* setCache('students', data)
setCache(data) == [filled |-> TRUE, data |-> data, timestamp |-> now]

\* a response of a student endpoint
StudentResp(op, code) == [Resp EXCEPT !.op = op, !.code = code]

\* a request that waits for the database: phase "sent" until the database
\* has run it, then "done" with what it returned
StudentOp(kind, id, body) ==
    [kind |-> kind, id |-> id, body |-> body, phase |-> "sent",
     list |-> {}, found |-> FALSE, asOf |-> 0]

\* one read and one write wait for the database at a time
Reading == \E op \in studentOps : op.kind = "find"
Writing == \E op \in studentOps : op.kind # "find"

\* the ids of the entries of inMemoryStudents
MemoryIds == {inMemoryStudents[k].id : k \in DOMAIN inMemoryStudents}

\* GET /api/students: the cached list if there is one; else, with the
\* database connected, Student.find is awaited; else the in-memory list
StudentsGet ==
    /\ IF CacheHit
       THEN /\ lastResp' = [StudentResp("students-get", 200) EXCEPT
                                !.students = cache.data, !.fromCache = TRUE]
            /\ UNCHANGED studentOps
       ELSE IF dbConnected
       THEN /\ ~Reading
            /\ studentOps' = studentOps \cup {StudentOp("find", 0, NoStudent)}
            /\ UNCHANGED lastResp
       ELSE /\ lastResp' = [StudentResp("students-get", 200) EXCEPT
                     !.students = {inMemoryStudents[k] :
                                      k \in DOMAIN inMemoryStudents}]
            /\ UNCHANGED studentOps
    /\ UNCHANGED <<cache, studentDocs, inMemoryStudents, studentLog>>
    /\ UNCHANGED notStudents

\* the database runs a request that was sent to it
StudentsDbRuns(op) ==
    /\ op \in studentOps
    /\ op.phase = "sent"
    /\ LET newId == studentLog.created + 1
           id == IF op.kind = "create" THEN newId ELSE op.id
           wrote == CASE op.kind = "find" -> FALSE
                      [] op.kind = "create" -> TRUE
                      [] OTHER -> /\ op.id \in Students
                                  /\ studentDocs[op.id] # NoStudent
           writes == studentLog.writes + (IF wrote THEN 1 ELSE 0)
       IN  /\ wrote => studentLog.writes < MaxStudentWrites
           /\ op.kind = "create" => newId \in Students
           /\ studentDocs' =
                 CASE ~wrote -> studentDocs
                   [] op.kind = "delete" ->
                        [studentDocs EXCEPT ![id] = NoStudent]
                   [] OTHER -> [studentDocs EXCEPT ![id] = op.body]
           /\ studentLog' = [studentLog EXCEPT
                 !.created = IF op.kind = "create" THEN newId ELSE @,
                 !.writes = writes]
           /\ studentOps' = (studentOps \ {op}) \cup
                 {[op EXCEPT !.phase = "done", !.id = id, !.found = wrote,
                             !.list = IF op.kind = "find"
                                      THEN StudentList(studentDocs) ELSE {},
                             !.asOf = writes]}
    /\ UNCHANGED <<cache, inMemoryStudents, lastResp>>
    /\ UNCHANGED notStudents

\* Student.find resolved: the list is cached and returned
StudentsFindResolved(op) ==
    /\ op \in studentOps
    /\ op.kind = "find"
    /\ op.phase = "done"
    /\ cache' = setCache(op.list)
    /\ studentLog' = [studentLog EXCEPT !.cachedAsOf = op.asOf]
    /\ lastResp' = [StudentResp("students-get", 200) EXCEPT
                        !.students = op.list]
    /\ studentOps' = studentOps \ {op}
    /\ UNCHANGED <<studentDocs, inMemoryStudents>>
    /\ UNCHANGED notStudents

\* the awaited call of a student request rejected: the catch answers 500
StudentsOpFailed(op) ==
    /\ op \in studentOps
    /\ op.phase = "sent"
    /\ lastResp' = StudentResp("students-" \o op.kind, 500)
    /\ studentOps' = studentOps \ {op}
    /\ UNCHANGED <<cache, studentDocs, inMemoryStudents, studentLog>>
    /\ UNCHANGED notStudents

\* a write is completed: the newest completed write is the later of the two
Completed(asOf) ==
    [studentLog EXCEPT !.completed = IF asOf > @ THEN asOf ELSE @]

\* POST /api/students: 400 without name or phone; with the database
\* connected Student.create is awaited; else the student is pushed onto
\* inMemoryStudents with id Date.now()
StudentsPost(given, name) ==
    /\ IF ~given
       THEN /\ lastResp' = StudentResp("students-create", 400)
            /\ UNCHANGED <<studentOps, inMemoryStudents, studentLog>>
       ELSE IF dbConnected
       THEN /\ ~Writing
            /\ studentOps' = studentOps \cup
                  {StudentOp("create", 0, [name |-> name, status |-> "active"])}
            /\ UNCHANGED <<lastResp, inMemoryStudents, studentLog>>
       ELSE /\ studentLog.writes < MaxStudentWrites
            /\ inMemoryStudents' = Append(inMemoryStudents,
                  [id |-> now, name |-> name, status |-> "none"])
            /\ studentLog' = [Completed(studentLog.writes + 1) EXCEPT
                                 !.writes = @ + 1]
            /\ lastResp' = StudentResp("students-create", 200)
            /\ UNCHANGED studentOps
    /\ UNCHANGED <<cache, studentDocs>>
    /\ UNCHANGED notStudents

\* PUT /api/students/:id: with the database connected
\* Student.findByIdAndUpdate is awaited; else the entry of inMemoryStudents
\* with that id is replaced, 404 when there is none
StudentsPut(id, body) ==
    /\ IF dbConnected
       THEN /\ ~Writing
            /\ studentOps' = studentOps \cup {StudentOp("update", id, body)}
            /\ UNCHANGED <<lastResp, inMemoryStudents, studentLog>>
       ELSE IF id \notin MemoryIds
       THEN /\ lastResp' = StudentResp("students-update", 404)
            /\ UNCHANGED <<studentOps, inMemoryStudents, studentLog>>
       ELSE /\ studentLog.writes < MaxStudentWrites
            /\ LET index == CHOOSE k \in DOMAIN inMemoryStudents :
                      /\ inMemoryStudents[k].id = id
                      /\ \A j \in 1 .. k - 1 : inMemoryStudents[j].id # id
               IN  inMemoryStudents' = [inMemoryStudents EXCEPT ![index] =
                      [id |-> id, name |-> body.name, status |-> body.status]]
            /\ studentLog' = [Completed(studentLog.writes + 1) EXCEPT
                                 !.writes = @ + 1]
            /\ lastResp' = StudentResp("students-update", 200)
            /\ UNCHANGED studentOps
    /\ UNCHANGED <<cache, studentDocs>>
    /\ UNCHANGED notStudents

\* DELETE /api/students/:id: with the database connected
\* Student.findByIdAndDelete is awaited; else the entries with that id are
\* filtered out of inMemoryStudents
StudentsDelete(id) ==
    /\ IF dbConnected
       THEN /\ ~Writing
            /\ studentOps' = studentOps \cup {StudentOp("delete", id, NoStudent)}
            /\ UNCHANGED <<lastResp, inMemoryStudents, studentLog>>
       ELSE /\ id \in MemoryIds => studentLog.writes < MaxStudentWrites
            /\ inMemoryStudents' = SelectSeq(inMemoryStudents,
                                             LAMBDA st : st.id # id)
            /\ studentLog' = IF id \in MemoryIds
                             THEN [Completed(studentLog.writes + 1) EXCEPT
                                      !.writes = @ + 1]
                             ELSE studentLog
            /\ lastResp' = StudentResp("students-delete", 200)
            /\ UNCHANGED studentOps
    /\ UNCHANGED <<cache, studentDocs>>
    /\ UNCHANGED notStudents

\* invalidateCache('students')
invalidateCache == EmptyCache

\* the awaited call of a write resolved: an update that found no student
\* answers 404; otherwise the cache is invalidated and success answered
StudentsWriteResolved(op) ==
    /\ op \in studentOps
    /\ op.kind # "find"
    /\ op.phase = "done"
    /\ IF op.kind = "update" /\ ~op.found
       THEN /\ lastResp' = StudentResp("students-update", 404)
            /\ UNCHANGED <<cache, studentLog>>
       ELSE /\ cache' = invalidateCache
            /\ studentLog' = IF op.found THEN Completed(op.asOf)
                             ELSE studentLog
            /\ lastResp' = StudentResp("students-" \o op.kind, 200)
    /\ studentOps' = studentOps \ {op}
    /\ UNCHANGED <<studentDocs, inMemoryStudents>>
    /\ UNCHANGED notStudents

\* time passes
CacheClock ==
    /\ now' = now + CacheStep
    /\ UNCHANGED <<lastResp, cacheVars>>
    /\ UNCHANGED <<twilioClient, wsClients, readyState, subscribedCallSid, greeted, inbox, published, calls, activeCalls, placing, polls, hangups, registryVars, storeVars, v3Vars, timerVars, schedVars, videoVars>>


\* ------------------------------------------------------- specifications
Last(seq) == seq[Len(seq)]

\* the lifecycle order initiated -> ringing -> in-progress -> terminal
Rank(status) ==
    CASE status \in {"queued", "initiated"} -> 1
      [] status = "ringing" -> 2
      [] status = "in-progress" -> 3
      [] OTHER -> 4

\* at most n broadcasts have been made after the step
Within(n) == Len(published') <= n

WsNext ==
    \/ \E o \in Obs : WsConnect(o)
    \/ \E o \in Obs, c \in Sids \cup {"none"} : WsSubscribe(o, c)
    \/ \E o \in Obs : WsClosing(o)
    \/ \E o \in Obs : WsClose(o)
    \/ \E o \in Obs : WsError(o)

\* the steps of the call endpoints that make no broadcast
QuietCallNext ==
    \/ Tick
    \/ MakeCallNotConfigured
    \/ MakeCallStart
    \/ MakeCallFailed
    \/ \E sid \in ProviderSids : PollStart(sid)
    \/ \E sid \in ProviderSids : PollCached(sid)
    \/ \E sid \in ProviderSids : PollNotFound(sid)
    \/ \E p \in polls : PollFetchFailed(p)
    \/ \E p \in polls, st \in ProviderStatuses, d \in DurationInputs,
          ok \in BOOLEAN : PollDirect(p, st, d, ok)
    \/ \E sid \in ProviderSids : HangupNotConfigured(sid)
    \/ \E sid \in ProviderSids : HangupStart(sid)
    \/ \E h \in hangups : HangupFailed(h)

CallNext ==
    \/ QuietCallNext
    \/ \E sid \in ProviderSids : MakeCallCreated(sid) /\ Within(MaxEvents)
    \/ \E sid \in ProviderSids, st \in ProviderStatuses, d \in DurationInputs,
          u \in UrlInputs :
          WebhookCallStatus(sid, st, d, u) /\ Within(MaxEvents)
    \/ \E p \in polls, st \in ProviderStatuses, d \in DurationInputs :
          PollFetched(p, st, d) /\ Within(MaxEvents)
    \/ \E h \in hangups : HangupUpdated(h) /\ Within(MaxEvents)

\* the call endpoints and the call-status webhook, with no client connected
Spec == Init /\ [][CallNext]_vars

LifecycleNext ==
    \/ QuietCallNext
    \/ \E sid \in ProviderSids :
          MakeCallCreated(sid) /\ Within(MaxLifecycleEvents)
    \/ \E sid \in ProviderSids, st \in ProviderStatuses, d \in DurationInputs :
          WebhookCallStatus(sid, st, d, "none") /\ Within(MaxLifecycleEvents)
    \/ \E p \in polls, st \in ProviderStatuses, d \in DurationInputs :
          PollFetched(p, st, d) /\ Within(MaxLifecycleEvents)
    \/ \E h \in hangups : HangupUpdated(h) /\ Within(MaxLifecycleEvents)

\* the same endpoints with webhooks that carry no recording url and a shorter
\* broadcast history
SpecLifecycle == Init /\ [][LifecycleNext]_vars

FanoutNext ==
    \/ WsNext
    \/ MakeCallStart
    \/ \E sid \in ProviderSids :
          MakeCallCreated(sid) /\ Within(MaxFanoutEvents)
    \/ \E sid \in Sids, st \in FanoutStatuses :
          WebhookCallStatus(sid, st, -1, "none") /\ Within(MaxFanoutEvents)

\* the registry and the fan-out, with the provider's reports cut down to what
\* a broadcast depends on
SpecFanout == Init /\ [][FanoutNext]_vars

RegistryNext ==
    \/ \E o \in Obs : WsConnect(o)
    \/ \E o \in Obs : WsClosing(o)
    \/ \E o \in Obs : WsClose(o)
    \/ \E o \in Obs : WsError(o)
    \/ \E o \in Obs : WsPong(o)
    \/ CrowdConnect
    \/ CrowdClose /\ crowd' >= MAX_WS_CONNECTIONS - CrowdSlack
    \/ TickToSweep /\ now' <= ServerStart + MaxSweeps * WS_HEARTBEAT_INTERVAL
    \/ HeartbeatSweep
    \/ \E sid \in ProviderSids, st \in FanoutStatuses :
          WebhookCallStatus(sid, st, -1, "none") /\ Within(MaxRegistryEvents)

\* the registry next to its capacity: connections, heartbeat, fan-out
SpecRegistry == InitRegistry /\ [][RegistryNext]_vars

HeartbeatNext ==
    \/ \E o \in HeartbeatObs : WsConnect(o)
    \/ \E o \in HeartbeatObs : WsPing(o)
    \/ \E o \in HeartbeatObs, c \in ProviderSids : WsSubscribe(o, c)
    \/ \E o \in HeartbeatObs : WsPong(o)
    \/ \E o \in HeartbeatObs : WsClosing(o)
    \/ \E o \in HeartbeatObs : WsClose(o)
    \/ Tick
    \/ TickToSweep /\ now' <= ServerStart + MaxSweeps * WS_HEARTBEAT_INTERVAL
    \/ HeartbeatSweep
    \/ \E sid \in ProviderSids, st \in FanoutStatuses :
          WebhookCallStatus(sid, st, -1, "none") /\ Within(MaxHeartbeatEvents)

\* the heartbeat: a client that connects, sends messages, answers pings or
\* falls silent, the sweeps that the interval fires on time, and a broadcast
SpecHeartbeat == Init /\ [][HeartbeatNext]_vars

DisconnectNext ==
    \/ \E o \in Obs : WsConnect(o)
    \/ \E o \in Obs : WsClosing(o)
    \/ \E o \in Obs : WsClose(o)
    \/ \E o \in Obs : WsError(o)
    \/ \E sid \in ProviderSids, st \in FanoutStatuses :
          WebhookCallStatus(sid, st, -1, "none")
              /\ Within(MaxDisconnectEvents)

\* the clock reaches the next firing of the cleanup interval, for MaxCleanups
\* firings
CleanupClock ==
    TickToCleanup /\ now' <= ServerStart + MaxCleanups * CleanupInterval

CleanupNext ==
    \/ Tick
    \/ MakeCallStart
    \/ \E sid \in ProviderSids :
          /\ now < ServerStart + CleanupInterval
          /\ MakeCallCreatedAt(sid)
          /\ Within(MaxCleanupEvents)
    \/ \E sid \in ProviderSids, st \in ProviderStatuses :
          WebhookCallStatus(sid, st, -1, "none") /\ Within(MaxCleanupEvents)
    \/ CleanupClock
    \/ CleanupActiveCalls

\* calls placed before the cleanup interval fires first, their status
\* reports, and the cleanup interval firing on time
SpecCleanup == Init /\ [][CleanupNext]_vars

\* the same, with a clock that keeps advancing and a cleanup callback that
\* runs whenever the interval has fired
SpecCleanupFair ==
    SpecCleanup /\ WF_vars(CleanupClock) /\ WF_vars(CleanupActiveCalls)

\* the requests arrive, and are answered, before the cleanup interval
\* fires first
StoreBusy == now < ServerStart + CleanupInterval

StoreNext ==
    \/ StoreBusy /\ MakeCallStart
    \/ StoreBusy /\ MakeCallFailed
    \/ \E sid \in ProviderSids :
          StoreBusy /\ MakeCallCreatedAt(sid) /\ Within(MaxStoreEvents)
    \/ \E sid \in Sids, st \in StoreStatuses :
          /\ StoreBusy
          /\ WebhookCallStatus(sid, st, -1, "none")
          /\ Within(MaxStoreEvents)
    \/ \E sid \in ProviderSids : StoreBusy /\ PollStart(sid)
    \/ \E sid \in ProviderSids : StoreBusy /\ PollCached(sid)
    \/ \E sid \in ProviderSids : StoreBusy /\ PollNotFound(sid)
    \/ \E p \in polls : StoreBusy /\ PollFetchFailed(p)
    \/ \E p \in polls, st \in StoreStatuses :
          StoreBusy /\ PollFetched(p, st, -1) /\ Within(MaxStoreEvents)
    \/ \E p \in polls, st \in StoreStatuses, ok \in BOOLEAN :
          StoreBusy /\ PollDirect(p, st, -1, ok)
    \/ \E sid \in Sids : StoreBusy /\ HangupStart(sid)
    \/ \E h \in hangups :
          StoreBusy /\ HangupUpdated(h) /\ Within(MaxStoreEvents)
    \/ \E h \in hangups : StoreBusy /\ HangupFailed(h)
    \/ CleanupClock
    \/ CleanupActiveCalls

\* every endpoint that reads activeCalls, for known and unknown sids, and
\* the cleanup interval
SpecStore == Init /\ [][StoreNext]_vars

InboundNext ==
    \/ ConnectDB
    \/ DisconnectDB
    \/ \E sid \in InboundSids : VoiceIncoming(sid)
    \/ \E sid \in InboundSids, st \in InboundStatuses :
          VoiceIncomingStatus(sid, st)
    \/ \E t \in missedTimers : MissedTimerFires(t)
    \/ \E i \in DOMAIN historyCreates : CallHistoryCreated(i)
    \/ \E i \in DOMAIN historyCreates : CallHistoryCreateFailed(i)
    \/ TickToInboundTimer
          /\ now' <= ServerStart + MaxInboundCleanups * InboundCleanupInterval
    \/ CleanupInboundCalls

\* inbound calls: arrival, the provider's status reports, the 45-second
\* timer and the cleanup interval, with and without the database
SpecInbound == Init /\ [][InboundNext]_vars

VideoNext ==
    \/ ConnectDB
    \/ DisconnectDB
    \/ \E r \in VideoRooms : VideoCreateRoom(r)
    \/ \E op \in videoOps, ok \in BOOLEAN : VideoRoomSaved(op, ok)
    \/ \E r \in VideoRooms : VideoEndRoomStart(r)
    \/ \E op \in videoOps : VideoEndRoomUpdated(op)
    \/ \E op \in videoOps : VideoEndRoomFailed(op)
    \/ \E r \in VideoRooms : VideoJoinStart(r)
    \/ \E op \in videoOps : VideoJoinFound(op)
    \/ \E op \in videoOps : VideoJoinFindFailed(op)
    \/ \E op \in videoOps, ok \in BOOLEAN : VideoJoinActivated(op, ok)

\* one video room: its creation with the background save, joins and
\* end-room, with and without the database
SpecVideo == Init /\ [][VideoNext]_vars

OperatorsNext ==
    \/ \E sid \in InboundSids : VoiceIncoming(sid)
    \/ \E sid \in InboundSids, by \in Operators :
          InboundAnswerStart(sid, by)
    \/ \E req \in answering : InboundAnswerUpdated(req)
    \/ \E req \in answering : InboundAnswerFailed(req)
    \/ \E sid \in InboundSids, by \in Operators :
          InboundRejectStart(sid, by)
    \/ \E req \in rejecting : InboundRejectUpdated(req)
    \/ \E req \in rejecting : InboundRejectFailed(req)
    \/ \E sid \in InboundSids, st \in InboundStatuses :
          VoiceIncomingStatus(sid, st)
    \/ \E t \in missedTimers : MissedTimerFires(t)
    \/ TickToInboundTimer
          /\ now' <= ServerStart + MaxInboundCleanups * InboundCleanupInterval
    \/ CleanupInboundCalls

\* an inbound call and the operators that answer or reject it, the
\* provider's status reports, the 45-second timer and the cleanup interval,
\* without the database
SpecOperators == Init /\ [][OperatorsNext]_vars

SubscribeNext ==
    \/ \E o \in Obs : WsConnect(o)
    \/ \E o \in Obs, c \in Sids : WsSubscribe(o, c)
    \/ \E sid \in Sids, st \in FanoutStatuses :
          WebhookCallStatus(sid, st, -1, "none")
              /\ Within(MaxSubscribeEvents)

\* clients that subscribe to one call and then to another, and the reports
\* about both calls
SpecSubscribe == Init /\ [][SubscribeNext]_vars

SchedulerNext ==
    \/ \E repeat \in RepeatInputs : AddSchedule(repeat)
    \/ \E e \in 0 .. MaxCronDelay :
          CronFires(e)
              /\ nextCron <= ServerStart + MaxCronTicks * CronInterval
    \/ \E i \in 1 .. MaxCronTicks, ok \in BOOLEAN : ExecCallSettled(i, ok)
    \/ \E i \in 1 .. MaxCronTicks : ExecWaitDone(i)

\* one schedule, the cron job and the executions it starts
SpecScheduler == Init /\ [][SchedulerNext]_vars

UncaughtNext ==
    \/ \E o \in Obs : WsConnect(o)
    \/ \E o \in Obs, c \in Sids : WsSubscribe(o, c)
    \/ \E o \in Obs : WsClose(o)
    \/ MakeCallStart
    \/ \E sid \in ProviderSids :
          /\ MakeCallCreated(sid)
          /\ wsClients' = wsClients
          /\ Within(MaxUncaughtEvents)
    \/ \E sid \in Sids, st \in FanoutStatuses :
          /\ WebhookCallStatus(sid, st, -1, "none")
          /\ wsClients' = wsClients
          /\ Within(MaxUncaughtEvents)
    \/ \E sid \in Sids, st \in FanoutStatuses, thrower \in Obs,
          served \in SUBSET Obs :
          /\ WebhookCallStatusUncaught(sid, st, -1, "none", thrower, served)
          /\ Within(MaxUncaughtEvents)

\* the registry and the call-status webhook of server.js, whose broadcast
\* has no try around client.send: sends that succeed and sends that throw
SpecUncaught == Init /\ [][UncaughtNext]_vars

\* clients that connect and leave, by a close or after an error, and
\* broadcasts
SpecDisconnect == Init /\ [][DisconnectNext]_vars

RecordingNext ==
    \/ MakeCallStart
    \/ \E sid \in ProviderSids :
          MakeCallCreated(sid) /\ Within(MaxRecordingEvents)
    \/ \E sid \in ProviderSids, st \in FanoutStatuses, u \in UrlInputs :
          WebhookCallStatus(sid, st, -1, u) /\ Within(MaxRecordingEvents)
    \/ ConnectDB
    \/ DisconnectDB
    \/ \E sid \in Sids, rs \in RecordingStatuses, u \in UrlInputs :
          RecordingStatusIgnored(sid, rs, u)
    \/ \E sid \in Sids, d \in DurationInputs :
          RecordingStatusCompleted(sid, "rec", d)
              /\ Within(MaxRecordingEvents)
    \/ \E sid \in Sids, d \in DurationInputs :
          RecordingStatusStart(sid, "rec", d)
    \/ \E r \in recordings :
          RecordingStatusSettled(r) /\ Within(MaxRecordingEvents)

\* placement, the end of the call and the recording notifications
SpecRecording == Init /\ [][RecordingNext]_vars

MessagesNext ==
    \/ ConnectDB
    \/ DisconnectDB
    \/ \E m \in MessageSids :
          SmsIncomingInMemory(m) /\ newMessages' <= MaxMessages
    \/ \E m \in MessageSids : SmsIncomingStart(m)
    \/ \E q \in smsRequests : SmsIncomingLookedUp(q)
    \/ \E q \in smsRequests :
          SmsIncomingLookedUpOffline(q) /\ newMessages' <= MaxMessages
    \/ \E q \in smsRequests :
          SmsIncomingSaved(q) /\ newMessages' <= MaxMessages
    \/ \E q \in smsRequests : SmsIncomingFailed(q)
    \/ \E m \in MessageSids, st \in MessageStatuses :
          SmsStatusInMemory(m, st)
    \/ \E m \in MessageSids, st \in MessageStatuses, ok \in BOOLEAN :
          SmsStatusDb(m, st, ok)

\* the two message webhooks, with and without the database
SpecMessages == Init /\ [][MessagesNext]_vars

\* the provider reports a call's statuses in lifecycle order: CallStatus is
\* later than every status already announced for the call
InOrder(CallSid, CallStatus) ==
    \A i \in DOMAIN published :
        published[i].callSid = CallSid
            => Rank(CallStatus) > Rank(published[i].status)

InOrderNext ==
    \/ Tick
    \/ MakeCallNotConfigured
    \/ MakeCallStart
    \/ MakeCallFailed
    \/ \E sid \in ProviderSids :
          MakeCallCreated(sid) /\ Within(MaxInOrderEvents)
    \/ \E sid \in ProviderSids, st \in ProviderStatuses, d \in DurationInputs,
          u \in UrlInputs :
          /\ sid \in activeCalls
          /\ InOrder(sid, st)
          /\ WebhookCallStatus(sid, st, d, u)
          /\ Within(MaxInOrderEvents)

\* placements, and status reports that reach the webhook in lifecycle order
\* for calls that were placed
SpecInOrder == Init /\ [][InOrderNext]_vars

\* the ids the v3 webhook is called with: the provider's and one simulated
V3Sids == ProviderSids \cup {"sim_" \o ToString(ServerStart)}

PlacementNext ==
    \/ Tick
    \/ MakeCallNotConfigured
    \/ MakeCallStart
    \/ \E sid \in ProviderSids : MakeCallCreated(sid)
    \/ MakeCallFailed
    \/ V3InitiateSimulated /\ Len(databaseCalls') <= MaxV3Calls
    \/ V3InitiateStart
    \/ \E sid \in ProviderSids :
          V3InitiateCreated(sid) /\ Len(databaseCalls') <= MaxV3Calls
    \/ V3InitiateRejected /\ Len(databaseCalls') <= MaxV3Calls
    \/ \E sid \in V3Sids, st \in ProviderStatuses, d \in DurationInputs :
          V3WebhookCallStatus(sid, st, d) /\ Len(broadcasts') <= MaxV3Calls + 1

\* placing a call, in the main server and in the v3 server, and the v3
\* call-status webhook
SpecPlacement == Init /\ [][PlacementNext]_vars

CallStatusNext ==
    \/ MakeCallStart
    \/ \E sid \in ProviderSids :
          MakeCallCreated(sid) /\ Within(MaxCallStatusEvents)
    \/ \E sid \in Sids, st \in CallStatusInputs :
          WebhookCallStatus(sid, st, -1, "none")
              /\ Within(MaxCallStatusEvents)
    \/ V3InitiateStart
    \/ \E sid \in ProviderSids :
          V3InitiateCreated(sid) /\ Len(broadcasts') <= MaxCallStatusEvents
    \/ \E sid \in Sids, st \in CallStatusInputs :
          V3WebhookCallStatus(sid, st, 42)
              /\ Len(broadcasts') <= MaxCallStatusEvents

\* the call-status webhook of the main server and of the v3 server, for
\* calls that were placed and for call sids that have no record
SpecCallStatus == Init /\ [][CallStatusNext]_vars

StudentsNext ==
    \/ ConnectDB
    \/ DisconnectDB
    \/ StudentsGet
    \/ \E op \in studentOps : StudentsDbRuns(op)
    \/ \E op \in studentOps : StudentsFindResolved(op)
    \/ \E op \in studentOps : StudentsOpFailed(op)
    \/ \E given \in BOOLEAN, name \in StudentNames : StudentsPost(given, name)
    \/ \E id \in Students \cup MemoryIds, body \in StudentBodies :
          StudentsPut(id, body)
    \/ \E id \in Students \cup MemoryIds : StudentsDelete(id)
    \/ \E op \in studentOps : StudentsWriteResolved(op)
    \/ CacheClock /\ now' <= ServerStart + MaxCacheSteps * CacheStep

\* the student list: reads through the cache and writes, with and without
\* the database, while the cache ages
SpecStudents == Init /\ [][StudentsNext]_vars


\* ------------------------------------------------------------ properties


\* the number of broadcasts made by the handler that sent the last response
Emitted == Len(published) - lastResp.pubBefore

\* C1: once a record's status is terminal, no step changes that status.
C1_TerminalAbsorbing ==
    [][\A s \in Sids :
          calls[s].status \in terminalStatuses
              => calls'[s].status = calls[s].status]_vars

\* C2: the status of a record that is not yet terminal never moves to an
\* earlier stage of initiated -> ringing -> in-progress -> terminal.
C2_NeverBackwards ==
    [][\A s \in Sids :
          calls[s].status \in pollableStatuses
              => Rank(calls'[s].status) >= Rank(calls[s].status)]_vars

\* C3: a call-status webhook that carries the status its record already has
\* emits no broadcast.
C3_DuplicateWebhookSilent ==
    [][\A s \in activeCalls :
          (/\ Len(published') > Len(published)
           /\ Last(published').origin = "webhook"
           /\ Last(published').callSid = s)
              => Last(published').status # calls[s].status]_vars

\* C4: a poll-reconcile and a webhook never both broadcast the same terminal
\* status of the same call.
C4_PollWebhookOneBroadcast ==
    \A i, j \in DOMAIN published :
        (/\ published[i].origin = "poll"
         /\ published[j].origin = "webhook"
         /\ published[i].callSid = published[j].callSid)
            => published[i].status # published[j].status

\* C5: once answeredTime has a value, no step changes it.
C5_AnsweredOnce ==
    [][\A s \in Sids :
          calls[s].answeredTime # 0
              => calls'[s].answeredTime = calls[s].answeredTime]_vars

\* an in-progress webhook has run on a record answered one tick earlier
C5_Witness ==
    \E s \in Sids :
        /\ lastResp.op = "webhook"
        /\ lastResp.sid = s
        /\ lastResp.status = "in-progress"
        /\ calls[s].answeredTime # 0
        /\ calls[s].duration = ElapsedSeconds(calls[s].answeredTime)
        /\ calls[s].duration > 0

C7_PublishOrder ==
    \A o \in Obs : \A i, j \in DOMAIN inbox[o] :
        /\ inbox[o][i].idx \in DOMAIN published
        /\ i < j => inbox[o][i].idx < inbox[o][j].idx

\* a client has been sent two broadcasts
C7_Witness == \E o \in Obs : Len(inbox[o]) >= 2

\* C8: after the response to a hangup of a known call the record is
\* completed, whatever the provider answered, and a successful hangup of a call
\* that was never answered reports duration 0.
C8_HangupLocalFirst ==
    (lastResp.op = "hangup" /\ lastResp.known)
        => /\ calls[lastResp.sid].status = "completed"
           /\ (lastResp.code = 200 /\ calls[lastResp.sid].answeredTime = 0)
                  => lastResp.duration = 0

\* C9: a hangup whose provider update failed is answered with success and
\* broadcasts a completed event.
C9_HangupErrorNotSurfaced ==
    (lastResp.op = "hangup" /\ lastResp.providerErr)
        => /\ lastResp.code = 200
           /\ Emitted = 1
           /\ Last(published).status = "completed"

\* C10: a poll whose fetch finds a terminal provider status while the cached
\* status is not terminal sets the record to that status, makes exactly one
\* broadcast, of that status, and answers with it.
C10_PollRepairs ==
    (/\ lastResp.op = "poll"
     /\ lastResp.known
     /\ lastResp.cachedBefore \notin terminalStatuses
     /\ lastResp.providerStatus \in terminalStatuses)
        => /\ calls[lastResp.sid].status = lastResp.providerStatus
           /\ lastResp.status = lastResp.providerStatus
           /\ lastResp.code = 200
           /\ Emitted = 1
           /\ Last(published) = [callSid |-> lastResp.sid,
                                 status |-> lastResp.providerStatus,
                                 origin |-> "poll"]

\* a poll found 'no-answer' at the provider for a record cached as ringing
C10_Witness ==
    /\ lastResp.op = "poll"
    /\ lastResp.cachedBefore = "ringing"
    /\ lastResp.providerStatus = "no-answer"
    /\ calls[lastResp.sid].status = "no-answer"

\* C11: a poll whose fetch resolved makes a broadcast exactly when the
\* provider's status differs from the cached one, non-terminal changes
\* (initiated to ringing or in-progress) included.
C11_PollPublishesIffChanged ==
    (/\ lastResp.op = "poll"
     /\ lastResp.known
     /\ lastResp.providerStatus # "none")
        => (Emitted = 1 <=> lastResp.providerStatus # lastResp.cachedBefore)

\* C12: when the fetch of a poll of a cached call rejects, the record keeps
\* its status, no broadcast is made, and the answer is 200 with the cached
\* status.
C12_FetchFailureFallsBack ==
    [][\A p \in polls :
          (p.cached /\ p \notin polls' /\ lastResp'.providerErr)
              => /\ calls'[p.sid].status = calls[p.sid].status
                 /\ published' = published
                 /\ inbox' = inbox
                 /\ lastResp'.op = "poll"
                 /\ lastResp'.code = 200
                 /\ lastResp'.status = calls[p.sid].status]_vars

\* the fetch failed for a call cached as ringing, after two broadcasts
C12_Witness ==
    /\ lastResp.op = "poll"
    /\ lastResp.known
    /\ lastResp.providerErr
    /\ lastResp.code = 200
    /\ lastResp.status = "ringing"
    /\ calls[lastResp.sid].status = "ringing"
    /\ Emitted = 0
    /\ Len(published) = 2

C19_RegistryWithinCap == wsClientsSize <= MAX_WS_CONNECTIONS

\* the registry is full, one followed client is in it, and a sweep has run
C19_Witness ==
    /\ wsClientsSize = MAX_WS_CONNECTIONS
    /\ wsClients # {}
    /\ nextSweep > ServerStart + WS_HEARTBEAT_INTERVAL

\* C20: a connection made while the registry is full changes nothing but the
\* state of its own socket: the registry, the filters and what every client
\* was sent stay as they are, and the socket is not sent CONNECTED; and a
\* broadcast sends nothing to a socket that is not registered while every
\* registered, open, unfiltered client is sent it.
C20_RefusedWithoutEffect ==
    [][/\ \A o \in Obs :
             (/\ readyState[o] = "CONNECTING"
              /\ readyState'[o] # "CONNECTING"
              /\ wsClientsSize >= MAX_WS_CONNECTIONS)
                 => /\ readyState'[o] = "CLOSING"
                    /\ o \notin wsClients'
                    /\ wsClients' = wsClients
                    /\ crowd' = crowd
                    /\ greeted' = greeted
                    /\ inbox' = inbox
                    /\ subscribedCallSid' = subscribedCallSid
                    /\ published' = published
       /\ Len(published') > Len(published)
             => \A o \in Obs :
                   /\ o \notin wsClients => inbox'[o] = inbox[o]
                   /\ (/\ o \in wsClients
                       /\ readyState[o] = "OPEN"
                       /\ subscribedCallSid[o] = "none")
                          => Len(inbox'[o]) = Len(inbox[o]) + 1]_vars

\* one socket was refused by a full registry and was sent nothing, while a
\* client registered before it is still registered and was sent a broadcast
C20_Witness ==
    \E o1, o2 \in Obs :
        /\ readyState[o2] \in {"CLOSING", "CLOSED"}
        /\ o2 \notin greeted
        /\ o2 \notin wsClients
        /\ inbox[o2] = <<>>
        /\ wsClientsSize = MAX_WS_CONNECTIONS
        /\ o1 \in wsClients
        /\ readyState[o1] = "OPEN"
        /\ inbox[o1] # <<>>

\* C18: the step that handles a completed-recording notification for a call
\* with a record stores the playable url in that record, whether or not the
\* record has ended; the 'recording-ready' broadcast that follows is a single
\* one and carries the call sid of the notification; and neither step
\* changes the status of any record.
C18_RecordingAnnotates ==
    [][/\ \A s \in Sids :
             (\/ \E r \in recordings' \ recordings : r.sid = s
              \/ /\ recordings' = recordings
                 /\ Len(published') > Len(published)
                 /\ Last(published').origin = "recording"
                 /\ Last(published').callSid = s)
                 => /\ recordingsMap'[s] # "none"
                    /\ s \in activeCalls
                          => calls'[s].recordingUrl = recordingsMap'[s]
       /\ (/\ Len(published') > Len(published)
           /\ Last(published').origin = "recording")
             => /\ Len(published') = Len(published) + 1
                /\ Last(published').status = "recording-ready"
                /\ Last(published').callSid = lastResp'.sid
                /\ lastResp'.code = 200
       /\ (recordings' # recordings \/ recordingsMap' # recordingsMap
              \/ (/\ Len(published') > Len(published)
                  /\ Last(published').origin = "recording"))
             => \A s \in Sids : calls'[s].status = calls[s].status]_vars

\* the recording of a call that had already completed was announced, and the
\* record, still completed, carries the playable url
C18_Witness ==
    /\ lastResp.op = "recording"
    /\ lastResp.known
    /\ Len(published) = 3
    /\ published[2].status = "completed"
    /\ Last(published) = [callSid |-> lastResp.sid,
                          status |-> "recording-ready",
                          origin |-> "recording"]
    /\ calls[lastResp.sid].status = "completed"
    /\ calls[lastResp.sid].recordingUrl = "rec.mp3"

\* C17: every response of a webhook handler (call-status, recording-status,
\* sms-incoming, sms-status) is a success, also when the handler's own
\* processing failed.
C17_WebhooksAlwaysSucceed ==
    lastResp.op \in {"webhook", "recording", "sms-incoming", "sms-status"}
        => lastResp.code = 200

\* C15: when the reports of a placed call arrive in lifecycle order, every
\* report changes the status of the record and makes exactly one broadcast,
\* and answeredTime, once set, stays; the report 'completed' with duration
\* 42 that follows 'ringing' and 'in-progress' leaves the record completed
\* with duration 42, answered, and is the third webhook broadcast.
C15_InOrderScenario ==
    [][\A s \in activeCalls :
          (/\ Len(published') > Len(published)
           /\ Last(published').origin = "webhook"
           /\ Last(published').callSid = s)
              => /\ Len(published') = Len(published) + 1
                 /\ calls'[s].status # calls[s].status
                 /\ calls'[s].status = Last(published').status
                 /\ calls[s].answeredTime # 0
                       => calls'[s].answeredTime = calls[s].answeredTime
                 /\ (/\ Len(published) = 3
                     /\ published[2].status = "ringing"
                     /\ published[3].status = "in-progress"
                     /\ Last(published').status = "completed"
                     /\ lastResp'.reported = 42)
                       => /\ calls'[s].status = "completed"
                          /\ calls'[s].duration = 42
                          /\ calls'[s].answeredTime # 0
                          /\ Len(published') = 4]_vars

\* ringing, in-progress and completed with duration 42 were reported, in
\* that order and one tick after the answer, for the call placed first
C15_Witness ==
    /\ Len(published) = 4
    /\ published[1].origin = "make-call"
    /\ published[2].status = "ringing"
    /\ published[3].status = "in-progress"
    /\ published[4].status = "completed"
    /\ lastResp.op = "webhook"
    /\ lastResp.reported = 42
    /\ calls[lastResp.sid].status = "completed"
    /\ calls[lastResp.sid].duration = 42
    /\ calls[lastResp.sid].answeredTime # 0
    /\ now > calls[lastResp.sid].answeredTime

C14_FailedPlacementLeavesNothing ==
    [][((placing' < placing \/ initiating' < initiating)
           /\ lastResp'.providerErr)
          => /\ lastResp'.code >= 400
             /\ activeCalls' = activeCalls
             /\ calls' = calls
             /\ published' = published
             /\ databaseCalls' = databaseCalls
             /\ broadcasts' = broadcasts]_vars
\* the heartbeat interval fires in this step
Sweeps == nextSweep' # nextSweep

\* when the heartbeat interval fired last (at startup: when the server started)
PreviousSweep == nextSweep - WS_HEARTBEAT_INTERVAL

\* C21: a registered connection that neither connected nor ponged since the
\* previous sweep, so that the sweep at hand is at least the second one after
\* its last proof of aliveness, is terminated and unregistered by the sweep;
\* a connection that was unregistered is never registered again and no
\* broadcast is sent to it.
C21_SilentClientRemoved ==
    [][/\ Sweeps =>
            \A o \in wsClients :
                o \notin proved
                    => o \notin wsClients' /\ readyState'[o] # "OPEN"
       /\ \A o \in greeted \ wsClients :
            o \notin wsClients' /\ inbox'[o] = inbox[o]]_vars

\* C21 witness: a client was greeted, two sweeps ran, the second terminated
\* it while its socket was open (nothing else leaves an unregistered socket
\* CLOSING here), and the broadcast that was made is not in its inbox.
C21_Witness ==
    \E o \in Obs :
        /\ o \in greeted
        /\ o \notin wsClients
        /\ readyState[o] = "CLOSING"
        /\ lastActivity[o] = ServerStart
        /\ nextSweep = ServerStart + 3 * WS_HEARTBEAT_INTERVAL
        /\ published # <<>>
        /\ inbox[o] = <<>>

\* C22: a registered, open connection that connected or ponged since the
\* previous sweep is neither terminated nor unregistered by the sweep.
C22_ResponsiveClientSurvives ==
    [][Sweeps =>
          \A o \in wsClients :
              (o \in proved /\ readyState[o] = "OPEN")
                  => o \in wsClients' /\ readyState'[o] = "OPEN"]_vars

\* C22 witness: a client is registered and open after two sweeps, having
\* answered the ping of the sweep before.
C22_Witness ==
    \E o \in Obs :
        /\ o \in wsClients
        /\ readyState[o] = "OPEN"
        /\ o \notin proved
        /\ lastActivity[o] > ServerStart + WS_HEARTBEAT_INTERVAL
        /\ nextSweep >= ServerStart + 3 * WS_HEARTBEAT_INTERVAL

\* C23: a registered, open connection from which a pong or a message arrived
\* after the previous sweep is not terminated by the sweep.
C23_ActivityProvesAlive ==
    [][Sweeps =>
          \A o \in wsClients :
              (readyState[o] = "OPEN" /\ lastActivity[o] > PreviousSweep)
                  => o \in wsClients' /\ readyState'[o] = "OPEN"]_vars

\* C26: a connection that closed or emitted an error is not in the registry,
\* and no broadcast is sent to a connection that is not in the registry.
C26_ClosedOrErroredUnregistered ==
    [][\A o \in Obs :
          /\ (readyState'[o] = "CLOSED" \/ o \in errored')
                 => o \notin wsClients'
          /\ o \notin wsClients => inbox'[o] = inbox[o]]_vars

\* C26 witness: one client emitted an error, another closed, both had been
\* greeted, and the broadcast that was made is in neither inbox.
C26_Witness ==
    \E o1, o2 \in Obs :
        /\ o1 \in errored /\ o1 \in greeted
        /\ readyState[o2] = "CLOSED" /\ o2 \in greeted
        /\ published # <<>>
        /\ inbox[o1] = <<>> /\ inbox[o2] = <<>>
\* a broadcast is made in this step
Broadcasts == Len(published') = Len(published) + 1

\* the broadcast of this step called ws.send on socket o
SentTo(o) ==
    /\ Len(inbox'[o]) = Len(inbox[o]) + 1
    /\ Last(inbox'[o]).idx = Len(published')

\* the broadcast of this step called ws.send on socket o and the call threw
FailedOn(o) == SentTo(o) /\ ~Last(inbox'[o]).ok

\* C24: in a broadcast, every client whose send failed has left the registry
\* when the broadcast returns, and the message was sent to every eligible
\* client all the same.
C24_FailedSendRemovesOnlyThatClient ==
    [][Broadcasts =>
          \A o \in Obs :
              /\ FailedOn(o) => o \notin wsClients'
              /\ SendsTo(o, Last(published').callSid) => SentTo(o)]_vars

\* C25: a handler whose broadcast met a failed send still answers its normal
\* response, and the record it wrote carries the status it broadcast.
C25_FailedSendNeverFailsOperation ==
    [][(Broadcasts /\ \E o \in Obs : FailedOn(o)) =>
          /\ lastResp'.pubBefore = Len(published)
          /\ lastResp'.code = 200
          /\ lastResp'.sid \in activeCalls' =>
                 calls'[lastResp'.sid].status = Last(published').status]_vars
\* C27: every record in the call store is eventually removed from it.
C27_EveryRecordRemoved ==
    \A s \in ProviderSids : (s \in activeCalls) ~> (s \notin activeCalls)

\* C27 witness: the record of a call that never ended was created by a
\* placement and is no longer in the call store.
C27_Witness ==
    \E s \in ProviderSids :
        /\ calls[s].status \in pollableStatuses
        /\ startTime[s] > 0
        /\ s \notin activeCalls

\* the retention of an ended call in the webhook that the README shows
\* 5 * 60 * 1000
TerminalRetention == 300000

\* the cleanup interval fires in this step
Cleans == nextCleanup' # nextCleanup

\* C28: a cleanup run removes the record of an ended call once it is older
\* than the retention window of ended calls, which is shorter than the age
\* cap of two hours.
C28_EndedCallsRemovedSooner ==
    [][Cleans =>
          \A s \in activeCalls :
              (/\ calls[s].status \in terminalStatuses
               /\ now - startTime[s] > TerminalRetention)
                  => s \notin activeCalls']_vars
\* the 45-second timer of inbound call s fires in this step
TimerFires(s) == \E t \in missedTimers : t.sid = s /\ t \notin missedTimers'

\* the entries saved to the call history by the step, in memory or by a
\* CallHistory.create that the step started
SavedEntries ==
    {inMemoryCallHistory'[i] : i \in DOMAIN inMemoryCallHistory'}
        \cup {historyCreates'[i] : i \in DOMAIN historyCreates'}

\* C29: when the 45-second timer of an inbound call fires and the call is
\* still ringing, its status becomes missed, a 'missed' status event is
\* broadcast and a missed-call history entry is saved.
C29_RingingCallMarkedMissed ==
    [][\A s \in InboundSids :
          (TimerFires(s) /\ inbound[s].status = "ringing")
              => /\ inbound'[s].status = "missed"
                 /\ Len(incomingPublished') = Len(incomingPublished) + 1
                 /\ Last(incomingPublished')
                        = [callSid |-> s, status |-> "missed"]
                 /\ [callSid |-> s, status |-> "Missed"] \in SavedEntries]_vars
C31_OnceScheduleCalledOnce ==
    schedule.repeat = "once" => \A st \in Students : placed[st] <= 1

\* C32: when the 45-second timer of an inbound call fires and the call is
\* no longer ringing (answered, rejected or ended), the timer changes no
\* call object, broadcasts nothing and saves nothing to the history.
C32_TimerActsOnRingingOnly ==
    [][\A s \in InboundSids :
          (TimerFires(s) /\ inbound[s].status # "ringing")
              => UNCHANGED <<inbound, incomingPublished, inMemoryCallHistory,
                             historyCreates>>]_vars

\* C32 witness: the timer of an answered call has fired, at its deadline or
\* later, and the call is still answered and was never broadcast as missed.
C32_Witness ==
    \E s \in InboundSids :
        /\ inbound[s].status = "answered"
        /\ missedTimers = {}
        /\ now >= inbound[s].startTime + MissedTimeout
        /\ \A i \in DOMAIN incomingPublished :
               incomingPublished[i].status # "missed"
        /\ inMemoryCallHistory = <<>>

\* the cleanup interval of inboundCalls fires in this step
InboundCleans == nextInboundCleanup' # nextInboundCleanup

\* C33: a cleanup tick removes an inbound call from inboundCalls only when
\* the call arrived more than two minutes ago.
C33_CleanupRemovesOldOnly ==
    [][InboundCleans =>
          \A s \in inboundCalls \ inboundCalls' :
              now - inbound[s].startTime > TWO_MINUTES]_vars

\* an answer request for call s is answered with success in this step
AnswerSucceeds(s) ==
    /\ \E req \in answering : req.sid = s /\ req \notin answering'
    /\ lastResp'.op = "inbound-answer"
    /\ lastResp'.code = 200

\* C34: an inbound call is answered at most once: no answer request
\* succeeds for a call that an operator has answered already, and
\* answeredBy, once assigned, is not assigned again.
C34_AnsweredAtMostOnce ==
    [][\A s \in InboundSids :
          /\ AnswerSucceeds(s) => inbound[s].answeredBy = "none"
          /\ inbound[s].answeredBy # "none"
                 => inbound'[s].answeredBy = inbound[s].answeredBy]_vars

\* C35: at most one entry of the call history belongs to one inbound call.
C35_OneHistoryEntryPerCall ==
    \A s \in InboundSids :
        Cardinality({i \in DOMAIN inMemoryCallHistory :
                        inMemoryCallHistory[i].callSid = s}) <= 1

\* a /make-call request is answered with success in this step
PlacementSucceeds ==
    placing' = placing - 1 /\ lastResp'.op = "make-call" /\ lastResp'.code = 200

LateJoinSucceeds(r) ==
    /\ lastResp' # lastResp
    /\ lastResp'.op = "video-join"
    /\ lastResp'.sid = r
    /\ lastResp'.code = 200
    /\ ~ \E op \in videoOps \ videoOps' :
            op.kind = "find" /\ op.room = r /\ ~op.late

\* C37: once end-room has answered success for a room, no join request
\* that arrives later is answered with success.
C37_NoJoinAfterEnd ==
    [][\A r \in VideoRooms : r \in endedRooms => ~LateJoinSucceeds(r)]_vars

\* a read of the student list is answered from the cache
CachedRead ==
    /\ lastResp' # lastResp
    /\ lastResp'.op = "students-get"
    /\ lastResp'.fromCache

\* C38: once an add, update or delete of a student has completed, no later
\* read of the student list returns a cached list that was computed before
\* that write: the list a read takes from the cache has seen every
\* completed write
C38_CachedListIsFresh ==
    [][CachedRead => studentLog.cachedAsOf >= studentLog.completed]_vars

====
